---- MODULE Spec2Model ----
(***************************************************************************)
(* OldMan (Object Linked Data Mapper): the client session (unit of work),  *)
(* the client and store resources, the attribute runtime and the triple    *)
(* store they write to.                                                    *)
(*                                                                         *)
(* Parts of the repository that src/ does not hold (the resource tracker,  *)
(* the broker behind DefaultClientSession, the conversion manager, the IRI  *)
(* generator and the DataStore) are modelled after spec.md.                *)
(***************************************************************************)
EXTENDS Naturals, Sequences, FiniteSets, TLC

\* ------------------------------------------------------------------ bounds
\* Resource instances (Python objects) created in one behaviour.
MaxInst == 2
\* API calls made in one behaviour.
MaxOps == 5

\* ------------------------------------------------------------ vocabulary
None == "None"
NoInst == 0

\* Literal values of the attribute `name`.
Names == {"a", "b"}
\* IRIs a caller may pass to new() and get().
UserIris == {"usr1"}
\* Skolem IRIs: http://localhost/.well-known/genid/...
GenidIris == {"genid1", "genid2"}
\* Identifiers of the TemporaryId objects, one per instance.
TmpSeq == <<"tmp1", "tmp2", "tmp3", "tmp4", "tmp5", "tmp6">>
TmpIris == {TmpSeq[k] : k \in 1..Len(TmpSeq)}
\* IRIs handed out by the IRI generator of the model, by counter value.
GenSeq == <<"gen1", "gen2", "gen3", "gen4", "gen5", "gen6">>
GenIris == {GenSeq[k] : k \in 1..Len(GenSeq)}

\* The model LocalPerson and its ancestry (leaf class first).
Types == {"LocalPerson", "Person"}
RDF_TYPE == "rdf:type"

\* The attributes of the model and the property each one is bound to.
Attrs == {"name", "friend"}
om_property ==
  [a \in Attrs |->
     IF a = "name"
     THEN [iri |-> "foaf:name", is_required |-> TRUE, type |-> "datatype"]
     ELSE [iri |-> "foaf:knows", is_required |-> FALSE, type |-> "object"]]
ObjectAttrs == {a \in Attrs : om_property[a].type = "object"}

\* The slot of _former_values: empty, or occupied (possibly by None).
NoFormer == [has |-> FALSE, v |-> None]

is_blank_node(iri) == iri \in GenidIris

is_permanent(iri) == iri \notin TmpIris

\* ------------------------------------------------------ attribute runtime
is_locally_satisfied(r, a) ==
  IF ~om_property[a].is_required THEN TRUE ELSE r.val[a] # None

other_attributes(a) ==
  {b \in Attrs \ {a} : om_property[b].iri = om_property[a].iri}

\* Faulty variant: the requirement is never checked.
check_validity_skipped(r, a) == TRUE

\* TRUE: passes; FALSE: raises RequiredPropertyError.
check_validity(r, a) ==
  \/ is_locally_satisfied(r, a)
  \/ \E b \in other_attributes(a) : is_locally_satisfied(r, b)

\* Faulty variant: a resource is taken for valid without a check.
is_valid_always(r) == TRUE

is_valid(r) == \A a \in Attrs : check_validity(r, a)

has_new_value(r, a) == r.former[a].has

\* Clears the former value: the storage acknowledgement. `acked` is a
\* history field: the value the attribute had at the acknowledgement.
pop_former_value(r, a) ==
  [r EXCEPT !.former[a] = NoFormer, !.acked[a] = r.val[a]]

RECURSIVE AckAll(_, _)
AckAll(r, as) ==
  IF as = {} THEN r
  ELSE LET a == CHOOSE x \in as : TRUE
       IN AckAll(pop_former_value(r, a), as \ {a})

\* Faulty variant: every assignment records the value it overwrites.
LDAttribute_set_overwriting(r, a, value) ==
  [r EXCEPT !.val[a] = value,
            !.former[a] = IF r.val[a] # value THEN [has |-> TRUE, v |-> r.val[a]]
                          ELSE @]

\* LDAttribute.__set__ after check_value has passed.
LDAttribute_set(r, a, value) ==
  LET f == IF ~r.former[a].has /\ r.val[a] # value
           THEN [has |-> TRUE, v |-> r.val[a]]
           ELSE r.former[a]
  IN [r EXCEPT !.val[a] = value, !.former[a] = f]

\* ObjectLDAttribute.__set__: a Resource argument is replaced by its id.
\* `arg` is [is_resource |-> BOOLEAN, id |-> IRI or None].
ObjectLDAttribute_set(r, a, arg) == LDAttribute_set(r, a, arg.id)

\* ------------------------------------------------------------------ state
VARIABLES
  sessions,      \* the sessions created by the mediator
  res,           \* the ClientResource objects, by instance number
  tracked,       \* tracker: the live resources of every session
  to_delete,     \* tracker: the resources marked to delete
  updated_iris,  \* per session: _updated_iris, pairs <<temporary, permanent>>
  store,         \* the triples of the data graph
  counter,       \* the counter of the incremental IRI generator
  cache,         \* the resource cache of the store
  nops,          \* API calls made so far
  last           \* history: the last API call and what it returned

vars == <<sessions, res, tracked, to_delete, updated_iris, store, counter,
          cache, nops, last>>

World ==
  [res |-> res, tracked |-> tracked, to_delete |-> to_delete,
   updated_iris |-> updated_iris, store |-> store, counter |-> counter,
   cache |-> cache]

Apply(w) ==
  /\ res' = w.res
  /\ tracked' = w.tracked
  /\ to_delete' = w.to_delete
  /\ updated_iris' = w.updated_iris
  /\ store' = w.store
  /\ counter' = w.counter
  /\ cache' = w.cache

\* ---------------------------------------------------------------- tracker
\* The live resource of session s whose current Id is iri, or NoInst.
tracker_find(w, s, iri) ==
  LET m == {i \in w.tracked : w.res[i].sess = s /\ w.res[i].iri = iri}
  IN IF m = {} THEN NoInst ELSE CHOOSE i \in m : TRUE

\* Tracks i under its Id; a resource tracked under the same Id is replaced.
tracker_add(w, i) ==
  LET same == {j \in w.tracked \ {i} : /\ w.res[j].sess = w.res[i].sess
                                       /\ w.res[j].iri = w.res[i].iri}
  IN [w EXCEPT !.tracked = (@ \ same) \cup {i}, !.to_delete = @ \ same]

resource_is_modified(r) ==
  \/ r.is_new
  \/ r.types # r.former_types
  \/ \E a \in Attrs : has_new_value(r, a)

modified_resources(w, s) ==
  {i \in w.tracked : w.res[i].sess = s /\ resource_is_modified(w.res[i])}

resources_to_delete(w, s) == {i \in w.to_delete : w.res[i].sess = s}

mark_to_delete(w, i) == [w EXCEPT !.to_delete = @ \cup {i}]

forget_resources_to_delete(w, s) ==
  [w EXCEPT !.tracked = @ \ resources_to_delete(w, s),
            !.to_delete = @ \ resources_to_delete(w, s)]

\* -------------------------------------------------------------- DataStore
SubjectsOf(g) == {t[1] : t \in g}

ObjectsOf(g, iri, p) == {t[3] : t \in {u \in g : u[1] = iri /\ u[2] = p}}

\* exists that finds no IRI in the store.
DataStore_exists_never(w, iri) == FALSE

DataStore_exists(w, iri) == iri \in SubjectsOf(w.store)

\* The StoreResource states that the triples of iri can be read as: an
\* attribute takes one of the objects of its property, None without any.
LoadFromGraph(g, iri) ==
  LET ch(a) == IF ObjectsOf(g, iri, om_property[a].iri) = {} THEN {None}
               ELSE ObjectsOf(g, iri, om_property[a].iri)
      all == UNION {ch(a) : a \in Attrs}
      tps == ObjectsOf(g, iri, RDF_TYPE)
  IN {[iri |-> iri, types |-> tps, former_types |-> tps, is_new |-> FALSE,
       val |-> v, former |-> [a \in Attrs |-> NoFormer]] :
        v \in {f \in [Attrs -> all] : \A a \in Attrs : f[a] \in ch(a)}}

NoStoreResource ==
  [iri |-> None, types |-> {}, former_types |-> {}, is_new |-> FALSE,
   val |-> [a \in Attrs |-> None], former |-> [a \in Attrs |-> NoFormer]]

cache_remove(w, iris) ==
  [w EXCEPT !.cache = {c \in @ : c.iri \notin iris}]

\* DataStore.get: the cached resource if any, else the one read from the
\* graph, which is then cached. Outcomes: [w, found, sr].
DataStore_get(w, iri) ==
  LET hit == {c \in w.cache : c.iri = iri}
  IN IF hit # {}
     THEN {[w |-> w, found |-> TRUE, sr |-> c] : c \in hit}
     ELSE IF ~DataStore_exists(w, iri)
     THEN {[w |-> w, found |-> FALSE, sr |-> NoStoreResource]}
     ELSE {[w |-> [w EXCEPT !.cache = @ \cup {sr}], found |-> TRUE,
            sr |-> sr] : sr \in LoadFromGraph(w.store, iri)}

\* serialize_values_into_lines and build_update_query_part: the triples of
\* one attribute value of the resource iri.
serialize_values_into_lines(iri, a, value) ==
  IF value = None THEN {} ELSE {<<iri, om_property[a].iri, value>>}

\* The SPARQL update of Model._save, applied to the graph g:
\* DELETE {former lines} INSERT {new lines} WHERE {}.
Model_save(g, sr) ==
  LET changed == {a \in Attrs : has_new_value(sr, a)}
      former_lines == UNION {serialize_values_into_lines(sr.iri, a,
                               sr.former[a].v) : a \in changed}
      new_lines == UNION {serialize_values_into_lines(sr.iri, a, sr.val[a]) :
                            a \in changed}
      type_lines == IF former_lines = {} /\ sr.types # {}
                    THEN {<<sr.iri, RDF_TYPE, t>> : t \in sr.types}
                    ELSE {}
  IN (g \ former_lines) \cup new_lines \cup type_lines

\* IncrementalIriGenerator.generate: the next IRI and the counter after it.
generate(w) == [iri |-> GenSeq[w.counter + 1], counter |-> w.counter + 1]

\* DataStore.save: gives the resource a permanent IRI if it has none,
\* updates the graph and invalidates the cache entry of the resource.
\* `fails`: the store raises before writing. Outcomes: [w, status, sr].
DataStore_save(w, sr, fails) ==
  LET Write(w1, sr1) ==
        [w |-> cache_remove([w1 EXCEPT !.store = Model_save(@, sr1)], {sr1.iri}),
         status |-> "ok", sr |-> sr1]
      Assign(g) ==
        Write([w EXCEPT !.counter = g.counter], [sr EXCEPT !.iri = g.iri])
  IN IF fails THEN [w |-> w, status |-> "storefail", sr |-> sr]
     ELSE IF is_permanent(sr.iri) THEN Write(w, sr)
     ELSE Assign(generate(w))

\* DataStore.delete: removes every triple whose subject is the resource.
DataStore_delete(w, iri) ==
  cache_remove([w EXCEPT !.store = {t \in @ : t[1] # iri}], {iri})

\* ---------------------------------------------------------- StoreResource
\* Faulty variant: no related resource is deleted with the resource.
should_delete_resource_never(iri) == FALSE

should_delete_resource(iri) == iri # None /\ is_blank_node(iri)

\* The resource an object value resolves to (get_related_resource).
RelatedResource(w, iri) == CHOOSE o \in DataStore_get(w, iri) : TRUE

RECURSIVE SeqOf(_)
SeqOf(S) ==
  IF S = {} THEN <<>>
  ELSE LET x == CHOOSE y \in S : TRUE IN <<x>> \o SeqOf(S \ {x})

\* The store resources that the blank nodes among `iris` resolve to.
ResourcesToCascade(w, iris) ==
  LET rel == {RelatedResource(w, o) : o \in {x \in iris : should_delete_resource(x)}}
  IN SeqOf({x.sr : x \in {y \in rel : y.found}})

\* StoreResource.delete of the resources of `pending`, each followed by
\* the blank nodes it refers to; at most `fuel` resources are deleted.
RECURSIVE StoreResource_delete(_, _, _)
StoreResource_delete(w, pending, fuel) ==
  IF pending = <<>> \/ fuel = 0 THEN w
  ELSE LET sr == Head(pending)
           objs == {sr.val[a] : a \in ObjectAttrs} \ {None}
           w1 == cache_remove(w, {o \in objs : ~should_delete_resource(o)})
       IN StoreResource_delete(DataStore_delete(w1, sr.iri),
                               ResourcesToCascade(w, objs) \o Tail(pending),
                               fuel - 1)

\* Faulty variant: the attributes are acknowledged, the store is not called.
StoreResource_save_unwritten(w, sr, fails) ==
  [w |-> w, status |-> "ok",
   sr |-> [sr EXCEPT !.former_types = sr.types,
                     !.former = [a \in Attrs |-> NoFormer]]]

\* StoreResource.save. Outcomes: [w, status, sr] with status "ok",
\* "invalid" (OMEditError) or "storefail" (the store raised).
StoreResource_save(w, sr, fails) ==
  LET changed == {a \in ObjectAttrs : has_new_value(sr, a)}
      former_values == {sr.former[a].v : a \in changed} \ {None}
      values == {sr.val[a] : a \in changed} \ {None}
      Ack(o, objects_to_delete) ==
        IF o.status # "ok" THEN o
        ELSE [w |-> StoreResource_delete(
                      o.w, ResourcesToCascade(o.w, objects_to_delete), MaxInst),
              status |-> "ok",
              sr |-> [o.sr EXCEPT !.former_types = o.sr.types,
                                  !.former = [a \in Attrs |-> NoFormer]]]
      Save(fv, vs) ==
        Ack(DataStore_save(cache_remove(w, vs \cup fv), sr, fails),
            {o \in fv : is_blank_node(o)})
  IN IF ~is_valid(sr) THEN [w |-> w, status |-> "invalid", sr |-> sr]
     ELSE Save(former_values, values)

\* ------------------------------------------------- session and mediator
\* Faulty variant: the permanent IRI of a temporary one is never looked up.
get_updated_iri_unmapped(w, s, tmp_iri) == tmp_iri

get_updated_iri(w, s, tmp_iri) ==
  LET m == {p \in w.updated_iris[s] : p[1] = tmp_iri}
  IN IF m = {} THEN tmp_iri ELSE (CHOOSE p \in m : TRUE)[2]

\* The StoreResource a ClientResource is converted to: its Id and the IRIs
\* it refers to are the permanent ones the session knows for them.
convert_client_to_store_resource(w, i) ==
  LET r == w.res[i]
      tr(a, v) == IF a \in ObjectAttrs THEN get_updated_iri(w, r.sess, v)
                  ELSE v
  IN [iri |-> get_updated_iri(w, r.sess, r.iri), types |-> r.types,
      former_types |-> r.former_types, is_new |-> r.is_new,
      val |-> [a \in Attrs |-> tr(a, r.val[a])],
      former |-> [a \in Attrs |->
                    [has |-> r.former[a].has, v |-> tr(a, r.former[a].v)]]]

\* The ClientResource a StoreResource is converted to for session s: the
\* resource the session tracks under that IRI, else a new object.
\* Outcomes: [w, inst].
convert_store_to_client_resource(w, s, sr) ==
  LET local == tracker_find(w, s, sr.iri)
      i == Len(w.res) + 1
      r == [sess |-> s, iri |-> sr.iri, is_new |-> FALSE, types |-> sr.types,
            former_types |-> sr.types, val |-> sr.val,
            former |-> [a \in Attrs |-> NoFormer], acked |-> sr.val]
  IN IF local # NoInst THEN [w |-> w, inst |-> local]
     ELSE [w |-> [w EXCEPT !.res = Append(@, r)], inst |-> i]

\* DefaultCoreMediator.save_resource. Outcomes: [w, status, id].
save_resource(w, i, fails) ==
  LET Id(o) == [w |-> o.w, status |-> o.status, id |-> o.sr.iri]
  IN Id(StoreResource_save(w, convert_client_to_store_resource(w, i), fails))

delete_resource(w, i) ==
  StoreResource_delete(w, <<convert_client_to_store_resource(w, i)>>, MaxInst)

\* ClientResource.__init__ followed by the assignment of the keyword
\* arguments. `iri` is None or the IRI the caller gives.
ClientResource_init(s, i, iri, name) ==
  LET r == [sess |-> s, iri |-> IF iri = None THEN TmpSeq[i] ELSE iri,
            is_new |-> TRUE, types |-> Types, former_types |-> {},
            val |-> [a \in Attrs |-> None],
            former |-> [a \in Attrs |-> NoFormer],
            acked |-> [a \in Attrs |-> None]]
  IN LDAttribute_set(r, "name", name)

\* Faulty variant: the Id returned by the mediator is dropped.
ClientResource_save_keeping_id(w, i, fails) ==
  LET Acked(r) ==
        [AckAll([r EXCEPT !.former_types = r.types], Attrs)
           EXCEPT !.is_new = FALSE]
      Ack(o) ==
        IF o.status # "ok" THEN [w |-> o.w, status |-> o.status]
        ELSE [w |-> [o.w EXCEPT !.res[i] = Acked(@)], status |-> "ok"]
  IN IF ~is_valid(w.res[i]) THEN [w |-> w, status |-> "invalid"]
     ELSE Ack(save_resource(w, i, fails))

\* Faulty variant: the attributes are not acknowledged after the save.
ClientResource_save_unacked(w, i, fails) ==
  LET Ack(o) ==
        IF o.status # "ok" THEN [w |-> o.w, status |-> o.status]
        ELSE [w |-> [o.w EXCEPT !.res[i].iri = o.id], status |-> "ok"]
  IN IF ~is_valid(w.res[i]) THEN [w |-> w, status |-> "invalid"]
     ELSE Ack(save_resource(w, i, fails))

\* ClientResource.save. Outcomes: [w, status].
ClientResource_save(w, i, fails) ==
  LET Acked(r, id) ==
        [AckAll([r EXCEPT !.iri = id, !.former_types = r.types], Attrs)
           EXCEPT !.is_new = FALSE]
      Ack(o) ==
        IF o.status # "ok" THEN [w |-> o.w, status |-> o.status]
        ELSE [w |-> [o.w EXCEPT !.res[i] = Acked(@, o.id)], status |-> "ok"]
  IN IF ~is_valid(w.res[i]) THEN [w |-> w, status |-> "invalid"]
     ELSE Ack(save_resource(w, i, fails))

RECURSIVE ClearAll(_, _)
ClearAll(r, as) ==
  IF as = {} THEN r
  ELSE LET a == CHOOSE x \in as : TRUE
       IN ClearAll(pop_former_value(LDAttribute_set(r, a, None), a), as \ {a})

\* Faulty variant: the values are cleared and the mediator is not called.
ClientResource_delete_local(w, i) ==
  LET r == w.res[i]
  IN [w EXCEPT !.res[i] = [ClearAll([r EXCEPT !.former_types = r.types], Attrs)
                             EXCEPT !.is_new = FALSE]]

\* ClientResource.delete.
ClientResource_delete(w, i) ==
  LET Cleared(r) ==
        [ClearAll([r EXCEPT !.former_types = r.types], Attrs)
           EXCEPT !.is_new = FALSE]
      Clear(w1) == [w1 EXCEPT !.res[i] = Cleared(@)]
  IN Clear(delete_resource(w, i))

\* DefaultClientSession.new. Outcomes: [w, ret, raised]; ret is the set of
\* the resources returned.
Session_new(w, s, iri, name) ==
  IF iri # None /\ is_blank_node(iri)
  THEN [w |-> w, ret |-> {}, raised |-> TRUE]
  ELSE LET i == Len(w.res) + 1
           w1 == [w EXCEPT !.res = Append(@, ClientResource_init(s, i, iri, name))]
       IN [w |-> tracker_add(w1, i), ret |-> {i}, raised |-> FALSE]

\* Broker.get: the store resource, converted for the session.
\* Outcomes: [w, inst].
broker_get(w, s, iri) ==
  {IF o.found THEN convert_store_to_client_resource(o.w, s, o.sr)
   ELSE [w |-> o.w, inst |-> NoInst] : o \in DataStore_get(w, iri)}

\* Faulty variant: the tracker is not looked up before the broker is asked.
Session_get_unlocal(w, s, iri) ==
  {IF o.inst # NoInst
   THEN [w |-> tracker_add(o.w, o.inst), ret |-> {o.inst}, consulted |-> TRUE]
   ELSE [w |-> o.w, ret |-> {}, consulted |-> TRUE] :
     o \in broker_get(w, s, iri)}

\* DefaultClientSession.get. Outcomes: [w, ret, consulted]; consulted tells
\* whether the broker was asked.
Session_get(w, s, iri) ==
  LET local_resource == tracker_find(w, s, iri)
  IN IF local_resource # NoInst
     THEN {[w |-> w, ret |-> {local_resource}, consulted |-> FALSE]}
     ELSE {IF o.inst # NoInst
           THEN [w |-> tracker_add(o.w, o.inst), ret |-> {o.inst},
                 consulted |-> TRUE]
           ELSE [w |-> o.w, ret |-> {}, consulted |-> TRUE] :
             o \in broker_get(w, s, iri)}

\* Broker.filter and Broker.sparql_filter over the subjects `iris` that
\* the query selects. Outcomes: [w, ret].
RECURSIVE broker_filter(_, _, _)
broker_filter(w, s, iris) ==
  IF iris = {} THEN {[w |-> w, ret |-> {}]}
  ELSE LET iri == CHOOSE x \in iris : TRUE
       IN UNION {{[w |-> p.w, ret |-> p.ret \cup {o.inst}] :
                    p \in broker_filter(o.w, s, iris \ {iri})} :
                 o \in broker_get(w, s, iri)}

RECURSIVE tracker_add_all(_, _)
tracker_add_all(w, is) ==
  IF is = {} THEN w
  ELSE LET i == CHOOSE x \in is : TRUE
       IN tracker_add_all(tracker_add(w, i), is \ {i})

\* The subjects selected by filter(types=[LocalPerson]).
FilterSubjects(g) ==
  {t[1] : t \in {u \in g : u[2] = RDF_TYPE /\ u[3] = "LocalPerson"}}

\* DefaultClientSession.filter.
Session_filter(w, s) ==
  {[w |-> tracker_add_all(o.w, o.ret), ret |-> o.ret] :
     o \in broker_filter(w, s, FilterSubjects(w.store))}

\* DefaultClientSession.sparql_filter with SELECT ?s WHERE {?s ?p ?o}.
Session_sparql_filter(w, s) ==
  {[w |-> tracker_add_all(o.w, o.ret), ret |-> o.ret] :
     o \in broker_filter(w, s, SubjectsOf(w.store))}

\* DefaultClientSession.first: one of the resources filter() selects.
Session_first(w, s) ==
  IF FilterSubjects(w.store) = {} THEN {[w |-> w, ret |-> {}]}
  ELSE UNION {{[w |-> tracker_add(o.w, o.inst), ret |-> {o.inst}] :
                 o \in broker_get(w, s, iri)} :
              iri \in FilterSubjects(w.store)}

\* Faulty variant: the resource is deleted from the store at once.
Session_delete_eager(w, i) == ClientResource_delete(mark_to_delete(w, i), i)

\* DefaultClientSession.delete.
Session_delete(w, i) == mark_to_delete(w, i)

\* Broker.flush, first phase: every modified resource that still has a
\* temporary Id is given its permanent IRI, recorded for the session.
RECURSIVE AllocateIris(_, _, _)
AllocateIris(w, s, is) ==
  IF is = {} THEN w
  ELSE LET i == CHOOSE x \in is : \A y \in is : x <= y
           tmp == w.res[i].iri
           g == generate(w)
           w1 == IF is_permanent(tmp) \/ get_updated_iri(w, s, tmp) # tmp
                 THEN w
                 ELSE [w EXCEPT !.counter = g.counter,
                                !.updated_iris[s] = @ \cup {<<tmp, g.iri>>}]
       IN AllocateIris(w1, s, is \ {i})

\* Broker.flush, second phase: the modified resources are saved in `order`;
\* the store raises at the failAt-th one (0: never). `o` is the outcome so
\* far: [w, status, written, failed].
RECURSIVE SaveAll(_, _, _, _)
SaveAll(o, order, k, failAt) ==
  LET Merge(r) ==
        IF r.status = "ok"
        THEN [w |-> r.w, status |-> "ok",
              written |-> o.written \cup {order[k]}, failed |-> NoInst]
        ELSE [w |-> r.w, status |-> r.status, written |-> o.written,
              failed |-> order[k]]
  IN IF o.status # "ok" \/ k > Len(order) THEN o
     ELSE SaveAll(Merge(ClientResource_save(o.w, order[k], k = failAt)),
                  order, k + 1, failAt)

RECURSIVE DeleteAll(_, _)
DeleteAll(w, is) ==
  IF is = {} THEN w
  ELSE LET i == CHOOSE x \in is : TRUE
       IN DeleteAll(ClientResource_delete(w, i), is \ {i})

\* Broker.flush: validates every modified resource before anything is
\* written, then saves them, then deletes the resources to delete.
broker_flush(w, s, order, failAt) ==
  LET modified == {order[k] : k \in 1..Len(order)}
      invalid == {i \in modified : ~is_valid(w.res[i])}
      Start(w1) ==
        [w |-> w1, status |-> "ok", written |-> {}, failed |-> NoInst]
      Deletes(o) ==
        IF o.status # "ok" THEN o
        ELSE [o EXCEPT !.w = DeleteAll(@, resources_to_delete(@, s))]
  IN IF invalid # {}
     THEN [w |-> w, status |-> "invalid", written |-> {},
           failed |-> CHOOSE i \in invalid : TRUE]
     ELSE Deletes(SaveAll(Start(AllocateIris(w, s, modified)), order, 1,
                          failAt))

\* Faulty variant: the resources to delete are not forgotten.
Session_flush_keeping_deletes(w, s, order, failAt) ==
  LET Track(o) ==
        IF o.status # "ok" THEN o
        ELSE [o EXCEPT !.w = tracker_add_all(@, o.written)]
  IN Track(broker_flush(w, s, order, failAt))

\* DefaultClientSession.flush; an exception of the broker leaves the
\* method before the tracker is updated.
Session_flush(w, s, order, failAt) ==
  LET Track(o) ==
        IF o.status # "ok" THEN o
        ELSE [o EXCEPT !.w = forget_resources_to_delete(
                                tracker_add_all(@, o.written), s)]
  IN Track(broker_flush(w, s, order, failAt))

\* ---------------------------------------------------------------- actions
\* The resources of S as the list the tracker hands out: oldest first.
RECURSIVE SortedList(_)
SortedList(S) ==
  IF S = {} THEN <<>>
  ELSE LET i == CHOOSE x \in S : \A y \in S : x <= y
       IN <<i>> \o SortedList(S \ {i})

modified_list(w, s) == SortedList(modified_resources(w, s))

Call(op, s, iri, ret, consulted, status, written, failed) ==
  /\ nops' = nops + 1
  /\ last' = [op |-> op, sess |-> s, iri |-> iri, ret |-> ret,
              prev |-> {i \in tracked : res[i].sess = s},
              consulted |-> consulted, status |-> status,
              written |-> written, failed |-> failed]
  /\ UNCHANGED sessions

New(s, iri, name) ==
  /\ nops < MaxOps
  /\ Len(res) < MaxInst
  /\ \E o \in {Session_new(World, s, iri, name)} :
        /\ Apply(o.w)
        /\ Call("new", s, iri, o.ret, FALSE,
                IF o.raised THEN "raised" ELSE "ok", {}, NoInst)

SetName(i, value) ==
  /\ nops < MaxOps
  /\ i \in tracked
  /\ Apply([World EXCEPT !.res[i] = LDAttribute_set(@, "name", value)])
  /\ Call("set", res[i].sess, None, {}, FALSE, "ok", {}, NoInst)

\* The value assigned is None, an IRI, or a resource of the same session.
SetFriend(i, arg) ==
  /\ nops < MaxOps
  /\ i \in tracked
  /\ Apply([World EXCEPT !.res[i] = ObjectLDAttribute_set(@, "friend", arg)])
  /\ Call("set", res[i].sess, None, {}, FALSE, "ok", {}, NoInst)

FriendArgs(i) ==
  {[is_resource |-> FALSE, id |-> v] : v \in {None} \cup UserIris}
    \cup {[is_resource |-> TRUE, id |-> res[j].iri] :
            j \in {k \in tracked : res[k].sess = res[i].sess}}

Get(s, iri) ==
  /\ nops < MaxOps
  /\ tracker_find(World, s, iri) # NoInst \/ Len(res) < MaxInst
  /\ \E o \in Session_get(World, s, iri) :
       /\ Apply(o.w)
       /\ Call("get", s, iri, o.ret, o.consulted, "ok", {}, NoInst)

Filter(s) ==
  /\ nops < MaxOps
  /\ \E o \in Session_filter(World, s) :
       /\ Len(o.w.res) <= MaxInst
       /\ Apply(o.w)
       /\ Call("filter", s, None, o.ret, TRUE, "ok", {}, NoInst)

SparqlFilter(s) ==
  /\ nops < MaxOps
  /\ \E o \in Session_sparql_filter(World, s) :
       /\ Len(o.w.res) <= MaxInst
       /\ Apply(o.w)
       /\ Call("sparql_filter", s, None, o.ret, TRUE, "ok", {}, NoInst)

First(s) ==
  /\ nops < MaxOps
  /\ \E o \in Session_first(World, s) :
       /\ Len(o.w.res) <= MaxInst
       /\ Apply(o.w)
       /\ Call("first", s, None, o.ret, TRUE, "ok", {}, NoInst)

Delete(i) ==
  /\ nops < MaxOps
  /\ i \in tracked
  /\ Apply(Session_delete(World, i))
  /\ Call("delete", res[i].sess, None, {}, FALSE, "ok", {}, NoInst)

Flush(s, failAt) ==
  /\ nops < MaxOps
  /\ \E o \in {Session_flush(World, s, modified_list(World, s), failAt)} :
        /\ Apply(o.w)
        /\ Call("flush", s, None, {}, FALSE, o.status, o.written, o.failed)

\* The keyword argument `name` of new(): absent, or a name.
NewNames == {None, "a"}

KnownIris == UserIris \cup {res[i].iri : i \in 1..Len(res)}

Next ==
  \/ \E s \in sessions, iri \in {None} \cup UserIris \cup GenidIris,
        name \in NewNames : New(s, iri, name)
  \/ \E i \in tracked, value \in {None} \cup Names : SetName(i, value)
  \/ \E i \in tracked : \E arg \in FriendArgs(i) : SetFriend(i, arg)
  \/ \E s \in sessions, iri \in KnownIris : Get(s, iri)
  \/ \E s \in sessions : Filter(s)
  \/ \E s \in sessions : SparqlFilter(s)
  \/ \E s \in sessions : First(s)
  \/ \E i \in tracked : Delete(i)
  \/ \E s \in sessions :
       \E failAt \in 0..Cardinality(modified_resources(World, s)) :
         Flush(s, failAt)

InitWith(ss) ==
  /\ sessions = ss
  /\ res = <<>>
  /\ tracked = {}
  /\ to_delete = {}
  /\ updated_iris = [s \in ss |-> {}]
  /\ store = {}
  /\ counter = 0
  /\ cache = {}
  /\ nops = 0
  /\ last = [op |-> "init", sess |-> 0, iri |-> None, ret |-> {}, prev |-> {},
             consulted |-> FALSE, status |-> "ok", written |-> {},
             failed |-> NoInst]

\* One session.
Init == InitWith({1})

Spec == Init /\ [][Next]_vars

\* Two sessions over the same store.
InitShared == InitWith({1, 2})

\* Both sessions work on the resources the callers name by IRI.
NextShared ==
  \/ \E s \in sessions, iri \in UserIris, name \in NewNames : New(s, iri, name)
  \/ \E i \in tracked, value \in {None} \cup Names : SetName(i, value)
  \/ \E s \in sessions, iri \in UserIris : Get(s, iri)
  \/ \E s \in sessions : Filter(s)
  \/ \E s \in sessions : SparqlFilter(s)
  \/ \E s \in sessions : First(s)
  \/ \E i \in tracked : Delete(i)
  \/ \E s \in sessions :
       \E failAt \in 0..Cardinality(modified_resources(World, s)) :
         Flush(s, failAt)

SpecShared == InitShared /\ [][NextShared]_vars

\* ------------------------------------- attribute runtime with containers
\* Longest list assigned to an attribute.
MaxLen == 2

\* A Python value: None, one value, a set of values or a list of values.
NoneValue == [kind |-> "None", items |-> {}, seq |-> <<>>]
Single(x) == [kind |-> "single", items |-> {x}, seq |-> <<>>]
SetOf(S) == [kind |-> "set", items |-> S, seq |-> <<>>]
ListOf(l) == [kind |-> "list", items |-> {}, seq |-> l]

\* The values a container holds (the value itself when it is no container).
members(value) ==
  IF value.kind = "list" THEN {value.seq[k] : k \in 1..Len(value.seq)}
  ELSE value.items

\* len(value) == 0 for a list or a set.
is_empty_container(value) ==
  value.kind \in {"set", "list"} /\ members(value) = {}

\* The attributes of the LocalPerson model of the tests: two language
\* variants of one required property, a set of literals, a list of IRIs.
LDAttrs == {"short_bio_en", "short_bio_fr", "mboxes", "children"}
metadata ==
  [a \in LDAttrs |->
     CASE a = "short_bio_en" ->
            [property |-> "bio:short", is_required |-> TRUE,
             type |-> "datatype", language |-> "en", jsonld_type |-> None,
             container |-> None]
       [] a = "short_bio_fr" ->
            [property |-> "bio:short", is_required |-> TRUE,
             type |-> "datatype", language |-> "fr", jsonld_type |-> None,
             container |-> None]
       [] a = "mboxes" ->
            [property |-> "foaf:mbox", is_required |-> TRUE,
             type |-> "datatype", language |-> None,
             jsonld_type |-> "xsd:string", container |-> "@set"]
       [] OTHER ->
            [property |-> "rel:parentOf", is_required |-> FALSE,
             type |-> "object", language |-> None, jsonld_type |-> "@id",
             container |-> "@list"]]

\* A value the value format of every attribute rejects (bob.name = 2).
IllTyped == {"2"}

\* The well-typed values of the attributes.
Members(a) ==
  CASE a \in {"short_bio_en", "short_bio_fr"} -> {"hi"}
    [] a = "mboxes" -> {"m1", "m2"}
    [] OTHER -> {"usr2", "genid1"}

\* The lists over S of length at most n.
RECURSIVE ListsOver(_, _)
ListsOver(S, n) ==
  IF n = 0 THEN {<<>>}
  ELSE ListsOver(S, n - 1)
         \cup {Append(l, x) : l \in ListsOver(S, n - 1), x \in S}

\* isinstance(value, CONTAINER_REQUIREMENTS[container]).
CONTAINER_REQUIREMENTS(container, value) ==
  CASE container = "@set" -> value.kind = "set"
    [] container = "@list" -> value.kind = "list"
    [] OTHER -> TRUE

\* ValueFormat.check_value: TRUE passes, FALSE raises ValueFormatError.
value_format_check_value(a, v) == v \notin IllTyped

\* Faulty variant: a list is accepted without a declared container.
LDAttribute_check_container_lenient(a, value) ==
  \A v \in members(value) : value_format_check_value(a, v)

\* LDAttribute._check_container: TRUE passes, FALSE raises.
LDAttribute_check_container(a, value) ==
  /\ ~(metadata[a].container = None /\ value.kind = "list")
  /\ \A v \in members(value) : value_format_check_value(a, v)

\* LDAttribute.check_value: TRUE passes, FALSE raises
\* LDAttributeTypeCheckError.
LDAttribute_check_value(a, value) ==
  IF value.kind = "None" THEN TRUE
  ELSE IF ~CONTAINER_REQUIREMENTS(metadata[a].container, value) THEN FALSE
  ELSE IF value.kind \in {"set", "list"}
       THEN LDAttribute_check_container(a, value)
       ELSE \A v \in members(value) : value_format_check_value(a, v)

\* Faulty variant: an empty container is stored as it is.
LDAttribute_descriptor_set_keeping_empty(r, a, value) ==
  IF ~LDAttribute_check_value(a, value) THEN [r |-> r, raised |-> TRUE]
  ELSE [r |-> LDAttribute_set(r, a, value), raised |-> FALSE]

\* LDAttribute.__set__: the check, the empty container made None, the
\* former value kept. Outcomes: [r, raised].
LDAttribute_descriptor_set(r, a, value) ==
  IF ~LDAttribute_check_value(a, value) THEN [r |-> r, raised |-> TRUE]
  ELSE [r |-> LDAttribute_set(r, a, IF is_empty_container(value)
                                    THEN NoneValue ELSE value),
        raised |-> FALSE]

NoFormerValue == [has |-> FALSE, v |-> NoneValue]

\* LDAttribute.pop_former_value of every attribute of `as`.
LDAttribute_pop_former_values(r, as) ==
  [r EXCEPT !.former = [a \in LDAttrs |->
                          IF a \in as THEN NoFormerValue ELSE r.former[a]]]

LDAttribute_is_locally_satisfied(r, a) ==
  IF ~metadata[a].is_required THEN TRUE ELSE r.val[a] # NoneValue

LDAttribute_other_attributes(a) ==
  {b \in LDAttrs \ {a} : metadata[b].property = metadata[a].property}

\* Faulty variant: only the attribute itself can satisfy the requirement.
LDAttribute_check_validity_alone(r, a) == LDAttribute_is_locally_satisfied(r, a)

\* LDAttribute.check_validity: TRUE passes, FALSE raises
\* RequiredPropertyError.
LDAttribute_check_validity(r, a) ==
  \/ LDAttribute_is_locally_satisfied(r, a)
  \/ \E b \in LDAttribute_other_attributes(a) :
       LDAttribute_is_locally_satisfied(r, b)

\* Model.is_valid.
Model_is_valid(r) == \A a \in LDAttrs : LDAttribute_check_validity(r, a)

\* The values assigned to the attribute a in the behaviours: None, and the
\* values, sets and lists over its well-typed values and an ill-typed one.
Assignable(a) ==
  {NoneValue}
    \cup {Single(x) : x \in Members(a) \cup IllTyped}
    \cup {SetOf(S) : S \in SUBSET Members(a)}
    \cup {SetOf(IllTyped)}
    \cup {ListOf(l) : l \in ListsOver(Members(a), MaxLen)}

\* A Model object as created by Model(id=iri): no value, nothing changed.
Model_init(iri) ==
  [iri |-> iri, types |-> Types,
   val |-> [a \in LDAttrs |-> NoneValue],
   former |-> [a \in LDAttrs |-> NoFormerValue]]

\* ----------------------------- one attribute of one object, assigned to
\* The call of an attribute descriptor recorded in `last`.
Assigned(a, value, raised) ==
  [op |-> "set", attr |-> a, value |-> value,
   status |-> IF raised THEN "raised" ELSE "ok"]

\* setattr(bob, a, value) for the attribute the behaviour is about.
Assign(a, value) ==
  /\ last.attr = a
  /\ \E o \in {LDAttribute_descriptor_set(res[1], a, value)} :
       /\ res' = <<o.r>>
       /\ last' = Assigned(a, value, o.raised)
  /\ UNCHANGED <<sessions, tracked, to_delete, updated_iris, store, counter,
                 cache, nops>>

\* The storage acknowledgement of the attribute.
Acknowledge(a) ==
  /\ last.attr = a
  /\ res' = <<LDAttribute_pop_former_values(res[1], {a})>>
  /\ last' = [op |-> "ack", attr |-> a, value |-> NoneValue, status |-> "ok"]
  /\ UNCHANGED <<sessions, tracked, to_delete, updated_iris, store, counter,
                 cache, nops>>

\* A new object and the attribute the behaviour assigns to.
InitAttr ==
  /\ sessions = {}
  /\ res = <<Model_init("usr1")>>
  /\ tracked = {}
  /\ to_delete = {}
  /\ updated_iris = <<>>
  /\ store = {}
  /\ counter = 0
  /\ cache = {}
  /\ nops = 0
  /\ \E a \in LDAttrs :
       last = [op |-> "init", attr |-> a, value |-> NoneValue, status |-> "ok"]

NextAttr ==
  \/ \E a \in LDAttrs : \E value \in Assignable(a) : Assign(a, value)
  \/ \E a \in LDAttrs : Acknowledge(a)

SpecAttr == InitAttr /\ [][NextAttr]_vars

\* ------------------------------------- Model objects and the storage graph
\* The k-th blank node the SPARQL engine makes for the cell of a collection.
BNode(k) == "_:b" \o ToString(k)

\* LDAttribute._convert_value_to_turtle: the term of a value.
convert_value_to_turtle(a, v) ==
  IF metadata[a].jsonld_type = "@id" THEN "<" \o v \o ">"
  ELSE IF metadata[a].language # None
       THEN "\"" \o v \o "\"@" \o metadata[a].language
       ELSE "\"" \o v \o "\"^^<" \o metadata[a].jsonld_type \o ">"

\* LDAttribute.serialize_values_into_lines: one line per value, one line
\* with the collection ( v1 v2 ... ) for a @list attribute. A line is
\* [property, collection, terms].
LDAttribute_serialize_values_into_lines(a, value) ==
  LET vs == IF value.kind = "list" THEN value.seq ELSE SeqOf(value.items)
      line(c, ts) == [property |-> metadata[a].property, collection |-> c,
                      terms |-> ts]
  IN IF value.kind = "None" THEN {}
     ELSE IF metadata[a].container = "@list"
     THEN {line(TRUE, [k \in 1..Len(vs) |-> convert_value_to_turtle(a, vs[k])])}
     ELSE {line(FALSE, <<convert_value_to_turtle(a, v)>>) : v \in members(value)}

\* INSERT of collections: each one becomes a chain of new blank nodes,
\* linked by rdf:first and rdf:rest and ended by rdf:nil. gn is [g, n]: the
\* graph and the number of blank nodes made so far.
RECURSIVE InsertCollections(_, _, _)
InsertCollections(gn, iri, cols) ==
  IF cols = <<>> THEN gn
  ELSE LET l == Head(cols)
           k == Len(l.terms)
           node(j) == IF j > k THEN "rdf:nil" ELSE BNode(gn.n + j)
           cells == UNION {{<<node(j), "rdf:first", l.terms[j]>>,
                            <<node(j), "rdf:rest", node(j + 1)>>} : j \in 1..k}
       IN InsertCollections(
            [g |-> gn.g \cup {<<iri, l.property, node(1)>>} \cup cells,
             n |-> gn.n + k], iri, Tail(cols))

\* Graph.update of DELETE {former_lines} INSERT {new_lines} WHERE {}. The
\* blank nodes a collection stands for in the DELETE template are new ones:
\* they match no triple of the graph, and nothing is removed for that line.
storage_graph_update(gn, iri, former_lines, new_lines) ==
  LET triple(l) == <<iri, l.property, l.terms[1]>>
      deleted == {triple(l) : l \in {x \in former_lines : ~x.collection}}
      inserted == {triple(l) : l \in {x \in new_lines : ~x.collection}}
  IN InsertCollections([g |-> (gn.g \ deleted) \cup inserted, n |-> gn.n],
                       iri, SeqOf({x \in new_lines : x.collection}))

\* The list that the chain of cells starting at the node h spells.
RECURSIVE ListAt(_, _, _)
ListAt(g, h, fuel) ==
  IF h = "rdf:nil" \/ fuel = 0 \/ ObjectsOf(g, h, "rdf:first") = {} THEN <<>>
  ELSE <<CHOOSE t \in ObjectsOf(g, h, "rdf:first") : TRUE>>
         \o ListAt(g, CHOOSE t \in ObjectsOf(g, h, "rdf:rest") : TRUE, fuel - 1)

\* The IRIs of the resources of the behaviours.
Iris == {"usr1", "usr2", "genid1"}

\* Model.load_from_graph: the objects the triples of iri can be read as.
\* An attribute takes the values whose terms are objects of its property;
\* a @list attribute takes one of the lists that start at such an object.
Model_load_from_graph(g, iri) ==
  LET universe(a) == IF metadata[a].type = "object" THEN Iris ELSE Members(a)
      terms(a) == ObjectsOf(g, iri, metadata[a].property)
      found(a) == {v \in universe(a) : convert_value_to_turtle(a, v) \in terms(a)}
      lists(a) == {[k \in 1..Len(l) |->
                      CHOOSE v \in universe(a) :
                        convert_value_to_turtle(a, v) = l[k]] :
                   l \in {ListAt(g, h, Cardinality(g)) : h \in terms(a)}}
      read(a) == IF metadata[a].container = "@list"
                 THEN IF terms(a) = {} THEN {NoneValue}
                      ELSE {ListOf(l) : l \in lists(a)}
                 ELSE IF found(a) = {} THEN {NoneValue}
                 ELSE IF metadata[a].container = "@set"
                         \/ Cardinality(found(a)) > 1
                      THEN {SetOf(found(a))}
                      ELSE {Single(v) : v \in found(a)}
      lists_attrs == {a \in LDAttrs : metadata[a].container = "@list"}
      picks == {h \in [lists_attrs -> UNION {read(a) : a \in lists_attrs}] :
                  \A a \in lists_attrs : h[a] \in read(a)}
  IN {[iri |-> iri, types |-> Types,
       val |-> [a \in LDAttrs |-> IF a \in lists_attrs THEN pick[a]
                                  ELSE CHOOSE v \in read(a) : TRUE],
       former |-> [a \in LDAttrs |-> NoFormerValue]] : pick \in picks}

\* The calls of Model._save and Model.delete that one call leads to, done
\* in the order of the program on the graph and its blank node count gn.
\* A call is [op, r]: "_save" of the object r, "delete" of the object r, or
\* "get_any" of the object of that IRI followed by its delete.
RECURSIVE Model_calls(_, _, _)
Model_calls(gn, calls, fuel) ==
  IF calls = <<>> \/ fuel = 0 THEN gn
  ELSE LET c == Head(calls)
           get_any(iri) == CHOOSE o \in Model_load_from_graph(gn.g, iri) : TRUE
           r == IF c.op = "get_any" THEN get_any(c.r.iri) ELSE c.r
           ids(value) == IF value.kind = "list" THEN value.seq
                         ELSE SeqOf(value.items)
           blank(l) == SelectSeq(l, should_delete_resource)
           objects == {a \in LDAttrs : metadata[a].type = "object"}
           \* _save
           changed == {a \in LDAttrs : has_new_value(r, a)}
           former_lines ==
             UNION {LDAttribute_serialize_values_into_lines(a, r.former[a].v) :
                      a \in changed}
           new_lines ==
             UNION {LDAttribute_serialize_values_into_lines(a, r.val[a]) :
                      a \in changed}
           type_lines ==
             IF former_lines = {} /\ r.types # {}
             THEN {[property |-> RDF_TYPE, collection |-> FALSE,
                    terms |-> <<"<" \o t \o ">">>] : t \in r.types}
             ELSE {}
           former_objects ==
             blank(ids(IF changed \cap objects = {} THEN NoneValue
                       ELSE r.former[CHOOSE a \in changed \cap objects : TRUE].v))
           objects_to_delete ==
             [k \in 1..Len(former_objects) |->
                [op |-> "delete", r |-> get_any(former_objects[k])]]
           \* delete
           objs == blank(ids(r.val[CHOOSE a \in objects : TRUE]))
           cascade == [k \in 1..Len(objs) |->
                         [op |-> "get_any", r |-> [iri |-> objs[k]]]]
           cleared == [r EXCEPT
                         !.val = [a \in LDAttrs |-> NoneValue],
                         !.former = [a \in LDAttrs |->
                                       LDAttribute_set(r, a, NoneValue).former[a]]]
       IN IF c.op = "_save"
          THEN Model_calls(
                 storage_graph_update(gn, r.iri, former_lines,
                                      new_lines \cup type_lines),
                 objects_to_delete \o Tail(calls), fuel - 1)
          ELSE Model_calls(gn, cascade \o <<[op |-> "_save", r |-> cleared]>>
                                 \o Tail(calls), fuel - 1)

\* Model(id=iri, **kwargs): each keyword is assigned to its attribute.
Model_new(iri, kwargs) ==
  [Model_init(iri) EXCEPT
     !.val = kwargs,
     !.former = [a \in LDAttrs |->
                   LDAttribute_set(Model_init(iri), a, kwargs[a]).former[a]]]

\* The keywords bob is created with in the behaviours.
ModelKwargs ==
  {[a \in LDAttrs |-> NoneValue],
   [a \in LDAttrs |-> CASE a = "short_bio_en" -> Single("hi")
                        [] a = "mboxes" -> SetOf({"m1"})
                        [] OTHER -> NoneValue]}

\* The graph after usr2 and the blank node genid1 were created and saved,
\* genid1 with the given children.
SeedGraph(children) ==
  LET person(iri, mbox, c) ==
        Model_new(iri, [a \in LDAttrs |->
                          CASE a = "short_bio_en" -> Single("hi")
                            [] a = "mboxes" -> SetOf({mbox})
                            [] a = "children" -> c
                            [] OTHER -> NoneValue])
  IN Model_calls([g |-> {}, n |-> 0],
                 <<[op |-> "_save", r |-> person("usr2", "m1", NoneValue)],
                   [op |-> "_save", r |-> person("genid1", "m2", children)]>>,
                 Cardinality(LDAttrs))

\* ------------------------------------------ one Model object and its graph
\* setattr(bob, a, value).
ModelAssign(a, value) ==
  /\ nops < MaxOps
  /\ \E o \in {LDAttribute_descriptor_set(res[1], a, value)} :
       /\ res' = <<o.r>>
       /\ last' = [op |-> "set", status |-> IF o.raised THEN "raised" ELSE "ok"]
  /\ nops' = nops + 1
  /\ UNCHANGED <<sessions, tracked, to_delete, updated_iris, store, counter,
                 cache>>

\* bob.save(): raises RequiredPropertyError before _save when an attribute
\* is not valid.
ModelSave ==
  /\ nops < MaxOps
  /\ IF ~Model_is_valid(res[1])
     THEN /\ last' = [op |-> "save", status |-> "RequiredPropertyError"]
          /\ UNCHANGED <<res, store, counter>>
     ELSE \E gn \in {Model_calls([g |-> store, n |-> counter],
                                 <<[op |-> "_save", r |-> res[1]]>>,
                                 Cardinality(store) + Cardinality(LDAttrs))} :
            /\ store' = gn.g
            /\ counter' = gn.n
            /\ res' = <<LDAttribute_pop_former_values(res[1], LDAttrs)>>
            /\ last' = [op |-> "save", status |-> "ok"]
  /\ nops' = nops + 1
  /\ UNCHANGED <<sessions, tracked, to_delete, updated_iris, cache>>

\* bob.delete().
ModelDelete ==
  /\ nops < MaxOps
  /\ \E gn \in {Model_calls([g |-> store, n |-> counter],
                             <<[op |-> "delete", r |-> res[1]]>>,
                             Cardinality(store) + Cardinality(LDAttrs))} :
       /\ store' = gn.g
       /\ counter' = gn.n
  /\ res' = <<Model_init(res[1].iri)>>
  /\ last' = [op |-> "delete", status |-> "ok"]
  /\ nops' = nops + 1
  /\ UNCHANGED <<sessions, tracked, to_delete, updated_iris, cache>>

\* bob is created, not saved, beside the resources of the graph.
InitModel ==
  /\ sessions = {}
  /\ \E kwargs \in ModelKwargs : res = <<Model_new("usr1", kwargs)>>
  /\ tracked = {}
  /\ to_delete = {}
  /\ updated_iris = <<>>
  /\ \E children \in {NoneValue, ListOf(<<"usr2">>)} :
       /\ store = SeedGraph(children).g
       /\ counter = SeedGraph(children).n
  /\ cache = {}
  /\ nops = 0
  /\ last = [op |-> "init", status |-> "ok"]

NextModel ==
  \/ \E a \in LDAttrs : \E value \in Assignable(a) : ModelAssign(a, value)
  \/ ModelSave
  \/ ModelDelete

SpecModel == InitModel /\ [][NextModel]_vars

\* ----------------------------- one StoreResource, the store and its cache
\* The graph after the resources of the behaviours were saved: usr1 (absent
\* when f1 is "absent"), usr2 and the blank nodes genid1 and genid2, with
\* the given values of friend.
SeedStore(f1, f2, g1) ==
  LET sr(iri, name, friend) ==
        [iri |-> iri, types |-> Types, former_types |-> {}, is_new |-> TRUE,
         val |-> [a \in Attrs |-> IF a = "name" THEN name ELSE friend],
         former |-> [a \in Attrs |-> [has |-> TRUE, v |-> None]]]
      g2 == Model_save({}, sr("genid2", "b", None))
      g3 == Model_save(g2, sr("genid1", "b", g1))
      g4 == Model_save(g3, sr("usr2", "a", f2))
  IN IF f1 = "absent" THEN g4 ELSE Model_save(g4, sr("usr1", "a", f1))

\* store.get(id=iri): the resource becomes the one the behaviour works on.
StoreGet(iri) ==
  /\ nops < MaxOps
  /\ \E o \in DataStore_get(World, iri) :
       /\ cache' = o.w.cache
       /\ res' = IF o.found THEN <<o.sr>> ELSE res
       /\ last' = [op |-> "get", iri |-> iri,
                   status |-> IF o.found THEN "ok" ELSE "none"]
  /\ nops' = nops + 1
  /\ UNCHANGED <<sessions, tracked, to_delete, updated_iris, store, counter>>

\* StoreResource(id=iri, types=...): raises when the IRI is already used.
StoreNew(iri) ==
  /\ nops < MaxOps
  /\ IF DataStore_exists(World, iri)
     THEN /\ last' = [op |-> "new", iri |-> iri, status |-> "OMUniquenessError"]
          /\ UNCHANGED res
     ELSE /\ res' = <<[NoStoreResource EXCEPT !.iri = iri, !.types = Types,
                                               !.is_new = TRUE]>>
          /\ last' = [op |-> "new", iri |-> iri, status |-> "ok"]
  /\ nops' = nops + 1
  /\ UNCHANGED <<sessions, tracked, to_delete, updated_iris, store, counter,
                 cache>>

\* setattr(resource, a, value).
StoreSet(a, value) ==
  /\ nops < MaxOps
  /\ res[1].iri # None
  /\ res' = <<LDAttribute_set(res[1], a, value)>>
  /\ last' = [op |-> "set", iri |-> res[1].iri, status |-> "ok"]
  /\ nops' = nops + 1
  /\ UNCHANGED <<sessions, tracked, to_delete, updated_iris, store, counter,
                 cache>>

\* resource.add_type(t).
StoreAddType(t) ==
  /\ nops < MaxOps
  /\ res[1].iri # None
  /\ res' = <<[res[1] EXCEPT !.types = @ \cup {t}]>>
  /\ last' = [op |-> "add_type", iri |-> res[1].iri, status |-> "ok"]
  /\ nops' = nops + 1
  /\ UNCHANGED <<sessions, tracked, to_delete, updated_iris, store, counter,
                 cache>>

\* resource.save().
StoreSave ==
  /\ nops < MaxOps
  /\ res[1].iri # None
  /\ \E o \in {StoreResource_save(World, res[1], FALSE)} :
       /\ store' = o.w.store
       /\ cache' = o.w.cache
       /\ res' = <<o.sr>>
       /\ last' = [op |-> "save", iri |-> res[1].iri, status |-> o.status]
  /\ nops' = nops + 1
  /\ UNCHANGED <<sessions, tracked, to_delete, updated_iris, counter>>

\* resource.delete(): the values are set to None, the types to the empty
\* set, and the attributes are acknowledged.
StoreDelete ==
  /\ nops < MaxOps
  /\ res[1].iri # None
  /\ \E w \in {StoreResource_delete(World, <<res[1]>>,
                                     Cardinality(SubjectsOf(store)) + 1)} :
       /\ store' = w.store
       /\ cache' = w.cache
  /\ res' = <<[res[1] EXCEPT !.types = {}, !.is_new = FALSE,
                             !.val = [a \in Attrs |-> None],
                             !.former = [a \in Attrs |-> NoFormer]]>>
  /\ last' = [op |-> "delete", iri |-> res[1].iri, status |-> "ok"]
  /\ nops' = nops + 1
  /\ UNCHANGED <<sessions, tracked, to_delete, updated_iris, counter>>

\* No resource is held yet; the cache is empty.
InitStore ==
  /\ sessions = {}
  /\ res = <<NoStoreResource>>
  /\ tracked = {}
  /\ to_delete = {}
  /\ updated_iris = <<>>
  /\ \E f1 \in {"absent", None, "genid1", "usr2"}, f2 \in {None, "genid1"},
        g1 \in {"genid2", "usr2"} : store = SeedStore(f1, f2, g1)
  /\ counter = 0
  /\ cache = {}
  /\ nops = 0
  /\ last = [op |-> "init", iri |-> None, status |-> "ok"]

NextStore ==
  \/ \E iri \in {"usr1", "usr2"} : StoreGet(iri)
  \/ StoreNew("usr1")
  \/ \E name \in Names \cup {None} : StoreSet("name", name)
  \/ \E friend \in ({None, "usr1", "usr2", "genid1"} \ {res[1].iri}) :
       StoreSet("friend", friend)
  \/ StoreAddType("Agent")
  \/ StoreSave
  \/ StoreDelete

SpecStore == InitStore /\ [][NextStore]_vars

\* ------------------------------------------------------- model registry
\* A model, as the registry sees it: its class IRI, its short name and the
\* class IRIs of its ancestry (its own class first).  The default model has
\* no class IRI.
DefaultModel ==
  [class_iri |-> None, name |-> "Default_Client", ancestry_iris |-> {}]

RegistryModels ==
  { [class_iri |-> "Person", name |-> "Person", ancestry_iris |-> {"Person"}],
    [class_iri |-> "LocalPerson", name |-> "LocalPerson",
     ancestry_iris |-> {"LocalPerson", "Person"}],
    [class_iri |-> "Person", name |-> "Human", ancestry_iris |-> {"Person"}],
    [class_iri |-> "Agent", name |-> "Person", ancestry_iris |-> {"Agent"}] }

\* register that empties the type-set cache before it looks at the two keys.
ModelRegistry_register_clearing(r, model, short_name) ==
  LET class_iri == model.class_iri
      no_entry == [ts \in {} |-> [models |-> {}, types |-> {}]]
      sub_model_iris ==
        {c \in DOMAIN r.model_classes :
           class_iri \in r.model_classes[c].ancestry_iris}
  IN IF class_iri \in DOMAIN r.model_classes
          \/ short_name \in DOMAIN r.model_names
     THEN [registry |-> [r EXCEPT !.type_set_cache = no_entry],
           status |-> "AlreadyAllocatedModelError"]
     ELSE [registry |->
             [model_descendants |->
                (class_iri :> sub_model_iris) @@ r.model_descendants,
              model_classes |-> (class_iri :> model) @@ r.model_classes,
              model_names |-> (short_name :> model) @@ r.model_names,
              type_set_cache |-> no_entry],
           status |-> "ok"]

\* register(model, short_name): both keys are tested before anything is
\* written; the descendants of the new model are the models already
\* registered that have its class in their ancestry; the cache is emptied.
ModelRegistry_register(r, model, short_name) ==
  LET class_iri == model.class_iri
      no_entry == [ts \in {} |-> [models |-> {}, types |-> {}]]
      sub_model_iris ==
        {c \in DOMAIN r.model_classes :
           class_iri \in r.model_classes[c].ancestry_iris}
  IN IF class_iri \in DOMAIN r.model_classes
          \/ short_name \in DOMAIN r.model_names
     THEN [registry |-> r, status |-> "AlreadyAllocatedModelError"]
     ELSE [registry |->
             [model_descendants |->
                (class_iri :> sub_model_iris) @@ r.model_descendants,
              model_classes |-> (class_iri :> model) @@ r.model_classes,
              model_names |-> (short_name :> model) @@ r.model_names,
              type_set_cache |-> no_entry],
           status |-> "ok"]

\* find_models_and_types(type_set), with _find_leaf_models: the leaf models
\* are the models of the types that have an entry of descendants none of
\* which is in type_set, the default model when there is none.  The two
\* lists are kept as sets, their order being the iteration order of a set.
\* The cache is keyed by tuple(type_set): same_order says whether the tuple
\* of this call spells its elements in the order of the tuple the entry was
\* stored under.
ModelRegistry_find_models_and_types(r, type_set, same_order) ==
  IF type_set = {}
  THEN [registry |-> r, models |-> {r.model_names[DefaultModel.name]},
        types |-> {}]
  ELSE IF same_order /\ type_set \in DOMAIN r.type_set_cache
  THEN [registry |-> r, models |-> r.type_set_cache[type_set].models,
        types |-> r.type_set_cache[type_set].types]
  ELSE
    LET found ==
          {r.model_classes[t] :
             t \in {t \in type_set \cap DOMAIN r.model_descendants :
                      r.model_descendants[t] \cap type_set = {}}}
        leaf_models == IF found = {} THEN {r.model_names[DefaultModel.name]}
                       ELSE found
        leaf_model_iris == {m.class_iri : m \in leaf_models}
        ancestry_class_iris ==
          UNION {m.ancestry_iris : m \in leaf_models} \ leaf_model_iris
        independent_class_iris ==
          (type_set \ leaf_model_iris) \ ancestry_class_iris
        types ==
          leaf_model_iris \cup independent_class_iris \cup ancestry_class_iris
        pair == [models |-> leaf_models, types |-> types]
    IN [registry |->
          [r EXCEPT !.type_set_cache =
             (types :> pair) @@ (type_set :> pair) @@ r.type_set_cache],
        models |-> leaf_models, types |-> types]

\* --------------------------------------------------- one registry, in use
Register(model) ==
  LET out == ModelRegistry_register(store, model, model.name)
  IN /\ store' = out.registry
     /\ last' = [op |-> "register", arg |-> {model.class_iri},
                 status |-> out.status, models |-> {}, types |-> {}]
     /\ UNCHANGED <<sessions, res, tracked, to_delete, updated_iris, counter,
                    cache, nops>>

\* unregister(model), for a model the registry holds: three pops, then the
\* cache is emptied.
Unregister(model) ==
  /\ model.class_iri \in DOMAIN store.model_classes
  /\ store.model_classes[model.class_iri] = model
  /\ store' =
       [model_classes |->
          [c \in DOMAIN store.model_classes \ {model.class_iri} |->
             store.model_classes[c]],
        model_descendants |->
          [c \in DOMAIN store.model_descendants \ {model.class_iri} |->
             store.model_descendants[c]],
        model_names |->
          [n \in DOMAIN store.model_names \ {model.name} |->
             store.model_names[n]],
        type_set_cache |-> [ts \in {} |-> [models |-> {}, types |-> {}]]]
  /\ last' = [op |-> "unregister", arg |-> {model.class_iri},
              status |-> "ok", models |-> {}, types |-> {}]
  /\ UNCHANGED <<sessions, res, tracked, to_delete, updated_iris, counter,
                 cache, nops>>

Find(type_set, same_order) ==
  LET out == ModelRegistry_find_models_and_types(store, type_set, same_order)
  IN /\ store' = out.registry
     /\ last' = [op |-> "find", arg |-> type_set, status |-> "ok",
                 models |-> out.models, types |-> out.types]
     /\ UNCHANGED <<sessions, res, tracked, to_delete, updated_iris, counter,
                    cache, nops>>

\* The registry holds the default model and nothing else.
InitRegistry ==
  /\ sessions = {}
  /\ res = <<>>
  /\ tracked = {}
  /\ to_delete = {}
  /\ updated_iris = <<>>
  /\ store =
       [model_classes |-> (None :> DefaultModel),
        model_names |-> (DefaultModel.name :> DefaultModel),
        model_descendants |-> (None :> {}),
        type_set_cache |-> [ts \in {} |-> [models |-> {}, types |-> {}]]]
  /\ counter = 0
  /\ cache = {}
  /\ nops = 0
  /\ last = [op |-> "init", arg |-> {}, status |-> "ok", models |-> {},
             types |-> {}]

NextRegistry ==
  \/ \E model \in RegistryModels : Register(model)
  \/ \E model \in RegistryModels : Unregister(model)
  \/ \E type_set \in SUBSET {"Person", "LocalPerson", "Agent"} \cup {last.types},
        same_order \in BOOLEAN : Find(type_set, same_order)

SpecRegistry == InitRegistry /\ [][NextRegistry]_vars

\* ------------------------------------------------------ property ranges
\* The ranges declared: two XSD datatypes and a class.
PropertyRanges == {"xsd:string", "xsd:int", "Person"}

\* add_range that accepts a range whatever the ranges declared before.
OMProperty_add_range_unchecked(p, p_range) ==
  LET xsd == p_range \in {"xsd:string", "xsd:int"}
      typed == IF xsd /\ p.type = None THEN [p EXCEPT !.type = "datatype"]
               ELSE p
  IN IF xsd /\ p.type = "object"
     THEN [property |-> p, status |-> "OMPropertyDefTypeError"]
     ELSE [property |-> [typed EXCEPT !.ranges = @ \cup {p_range}],
           status |-> "ok"]

\* add_range(p_range), with the type setter.  A range is an XSD one when it
\* starts with the XSD namespace.  The setter has written the type when the
\* test on the ranges raises.
OMProperty_add_range(p, p_range) ==
  LET xsd == p_range \in {"xsd:string", "xsd:int"}
      typed == IF xsd /\ p.type = None THEN [p EXCEPT !.type = "datatype"]
               ELSE p
  IN IF xsd /\ p.type = "object"
     THEN [property |-> p, status |-> "OMPropertyDefTypeError"]
     ELSE IF typed.type = "datatype" /\ p_range \notin p.ranges
             /\ p.ranges # {}
     THEN [property |-> typed, status |-> "OMAlreadyDeclaredDatatypeError"]
     ELSE [property |-> [typed EXCEPT !.ranges = @ \cup {p_range}],
           status |-> "ok"]

\* ---------------------------------------------------- one property, in use
\* add_attribute_metadata(name, jsonld_type), the other arguments at their
\* defaults.  "if self._om_attributes" is true of a set that exists and is
\* not empty; generated is FALSE while _om_attributes is None.  The type
\* setter writes before the later tests are made.
AddAttributeMetadata(name, jsonld_type) ==
  LET p == res[1]
      wanted == IF jsonld_type = "@id" THEN "object" ELSE "datatype"
      typed == IF jsonld_type # None /\ p.type = None
               THEN [p EXCEPT !.type = wanted] ELSE p
      resolved ==
        IF jsonld_type # None THEN jsonld_type
        ELSE IF p.type = "datatype"
        THEN (IF p.ranges = {} THEN None ELSE CHOOSE x \in p.ranges : TRUE)
        ELSE "@id"
      out ==
        IF p.generated /\ p.om_attributes # {}
        THEN [property |-> p, status |-> "OMAlreadyGeneratedAttributeError"]
        ELSE IF jsonld_type # None /\ p.type # None /\ p.type # wanted
        THEN [property |-> p, status |-> "OMPropertyDefTypeError"]
        ELSE IF jsonld_type \notin {None, "@id"}
                /\ jsonld_type \notin p.ranges /\ p.ranges # {}
        THEN [property |-> typed,
              status |-> "OMAlreadyDeclaredDatatypeError"]
        ELSE IF \E i \in DOMAIN p.tmp_attr_mds :
                  p.tmp_attr_mds[i].name = name
        THEN [property |-> typed, status |-> "OMInternalError"]
        ELSE [property |->
                [typed EXCEPT !.tmp_attr_mds =
                   Append(@, [name |-> name, jsonld_type |-> resolved])],
              status |-> "ok"]
  IN /\ nops < MaxOps
     /\ res' = <<out.property>>
     /\ last' = [op |-> "add_attribute_metadata", status |-> out.status]
     /\ nops' = nops + 1
     /\ UNCHANGED <<sessions, tracked, to_delete, updated_iris, store,
                    counter, cache>>

\* generate_attributes(): one attribute per metadata, of the class the type
\* of the property selects; the metadata list is emptied.
GenerateAttributes ==
  LET p == res[1]
      raises == p.generated /\ p.om_attributes # {}
  IN /\ nops < MaxOps
     /\ res' =
          IF raises THEN res
          ELSE <<[p EXCEPT
                    !.generated = TRUE,
                    !.om_attributes =
                      {[name |-> p.tmp_attr_mds[i].name,
                        jsonld_type |-> p.tmp_attr_mds[i].jsonld_type,
                        cls |-> IF p.type = "object" THEN "ObjectOMAttribute"
                                ELSE "OMAttribute"] :
                         i \in DOMAIN p.tmp_attr_mds},
                    !.tmp_attr_mds = <<>>]>>
     /\ last' = [op |-> "generate_attributes",
                 status |-> IF raises THEN "OMAlreadyGeneratedAttributeError"
                            ELSE "ok"]
     /\ nops' = nops + 1
     /\ UNCHANGED <<sessions, tracked, to_delete, updated_iris, store,
                    counter, cache>>

\* p.add_range(p_range).
AddRange(p_range) ==
  LET out == OMProperty_add_range(res[1], p_range)
  IN /\ nops < MaxOps
     /\ res' = <<out.property>>
     /\ last' = [op |-> "add_range", status |-> out.status]
     /\ nops' = nops + 1
     /\ UNCHANGED <<sessions, tracked, to_delete, updated_iris, store,
                    counter, cache>>

\* An OMProperty after __init__: no type, no range, no metadata, and
\* _om_attributes None.
InitProperty ==
  /\ sessions = {}
  /\ res = <<[type |-> None, ranges |-> {}, tmp_attr_mds |-> <<>>,
              generated |-> FALSE, om_attributes |-> {}]>>
  /\ tracked = {}
  /\ to_delete = {}
  /\ updated_iris = <<>>
  /\ store = {}
  /\ counter = 0
  /\ cache = {}
  /\ nops = 0
  /\ last = [op |-> "init", status |-> "ok"]

NextProperty ==
  \/ \E name \in Attrs, jsonld_type \in {None, "@id", "xsd:string"} :
       AddAttributeMetadata(name, jsonld_type)
  \/ GenerateAttributes
  \/ \E p_range \in PropertyRanges : AddRange(p_range)

SpecProperty == InitProperty /\ [][NextProperty]_vars

\* ------------------------------------------------- resources serialised
\* Two resources of one document, a resource of another and a blank node.
DocumentIris == {"usr1", "usr1#key", "usr2", "genid1"}

\* hashless_iri: the IRI without its fragment (self._id.split('#')[0]), for
\* the IRIs of the documents below: usr1#key is in the document usr1.
hashless_iri(iri) == IF iri = "usr1#key" THEN "usr1" ELSE iri

\* Steps that finish every walk: a resource is serialised once at most, and
\* its dict takes a step for each member of its list and one to end.
MaxSteps == Cardinality(DocumentIris) * (MaxLen + 1)

\* to_dict that forgets a resource when its dict is finished: ignored_iris
\* holds the resources being serialised and no other.
RECURSIVE Resource_to_dict_copying(_, _)
Resource_to_dict_copying(g, st) ==
  IF st.stack = <<>> \/ st.fuel = 0 THEN st
  ELSE
    LET n == Len(st.stack)
        top == st.stack[n]
        spent == [st EXCEPT !.fuel = @ - 1]
    IN IF top.rest = <<>>
       THEN Resource_to_dict_copying(g,
              [spent EXCEPT !.stack = SubSeq(@, 1, n - 1),
                            !.ignored_iris =
                              {st.stack[i].self : i \in 1..(n - 1)}])
       ELSE
         LET value == Head(top.rest)
             inlined ==
               /\ value \notin st.ignored_iris
               /\ \/ is_blank_node(value)
                  \/ hashless_iri(top.self) = hashless_iri(value)
             seen == [spent EXCEPT
                        !.stack[n].rest = Tail(@),
                        !.mentions =
                          Append(@, [holder |-> top.self, iri |-> value,
                                     inlined |-> inlined,
                                     ignored_iris |-> st.ignored_iris,
                                     open |-> {st.stack[i].self : i \in 1..n}])]
         IN IF inlined
            THEN Resource_to_dict_copying(g,
                   [seen EXCEPT
                      !.ignored_iris = @ \cup {value},
                      !.stack = Append(@, [self |-> value,
                                           rest |-> g[value].children]),
                      !.dicts = Append(@, [iri |-> value,
                                           keys |-> g[value].keys])])
            ELSE Resource_to_dict_copying(g, seen)

\* to_dict that inlines every resource that is not ignored, whatever its
\* document.
RECURSIVE Resource_to_dict_any_document(_, _)
Resource_to_dict_any_document(g, st) ==
  IF st.stack = <<>> \/ st.fuel = 0 THEN st
  ELSE
    LET n == Len(st.stack)
        top == st.stack[n]
        spent == [st EXCEPT !.fuel = @ - 1]
    IN IF top.rest = <<>>
       THEN Resource_to_dict_any_document(g,
              [spent EXCEPT !.stack = SubSeq(@, 1, n - 1)])
       ELSE
         LET value == Head(top.rest)
             inlined == value \notin st.ignored_iris
             seen == [spent EXCEPT
                        !.stack[n].rest = Tail(@),
                        !.mentions =
                          Append(@, [holder |-> top.self, iri |-> value,
                                     inlined |-> inlined,
                                     ignored_iris |-> st.ignored_iris,
                                     open |-> {st.stack[i].self : i \in 1..n}])]
         IN IF inlined
            THEN Resource_to_dict_any_document(g,
                   [seen EXCEPT
                      !.ignored_iris = @ \cup {value},
                      !.stack = Append(@, [self |-> value,
                                           rest |-> g[value].children]),
                      !.dicts = Append(@, [iri |-> value,
                                           keys |-> g[value].keys])])
            ELSE Resource_to_dict_any_document(g, seen)

\* to_dict and _convert_value, as one walk.  g gives, for every resource,
\* the resources its object attribute holds (in the order of the list) and
\* the keys its own dict gets.  st.stack holds the calls of to_dict that are
\* not finished, the innermost last, each with the members it has yet to
\* convert; st.ignored_iris is the one set all of them share.  Every
\* conversion of a Resource is written to st.mentions, with the set and the
\* unfinished calls as they were at that moment; st.dicts lists the nested
\* dicts made.  st.fuel bounds the number of steps.
RECURSIVE Resource_to_dict(_, _)
Resource_to_dict(g, st) ==
  IF st.stack = <<>> \/ st.fuel = 0 THEN st
  ELSE
    LET n == Len(st.stack)
        top == st.stack[n]
        spent == [st EXCEPT !.fuel = @ - 1]
    IN IF top.rest = <<>>
       THEN Resource_to_dict(g, [spent EXCEPT !.stack = SubSeq(@, 1, n - 1)])
       ELSE
         LET value == Head(top.rest)
             inlined ==
               /\ value \notin st.ignored_iris
               /\ \/ is_blank_node(value)
                  \/ hashless_iri(top.self) = hashless_iri(value)
             seen == [spent EXCEPT
                        !.stack[n].rest = Tail(@),
                        !.mentions =
                          Append(@, [holder |-> top.self, iri |-> value,
                                     inlined |-> inlined,
                                     ignored_iris |-> st.ignored_iris,
                                     open |-> {st.stack[i].self : i \in 1..n}])]
         IN IF inlined
            THEN Resource_to_dict(g,
                   [seen EXCEPT
                      !.ignored_iris = @ \cup {value},
                      !.stack = Append(@, [self |-> value,
                                           rest |-> g[value].children]),
                      !.dicts = Append(@, [iri |-> value,
                                           keys |-> g[value].keys])])
            ELSE Resource_to_dict(g, seen)

\* ------------------------------------ a graph of resources, serialised
\* root.to_dict(), ignored_iris left to its default.  The keys of the dict
\* of a resource: its attributes that are not write-only (password is) and
\* hold a value, id unless the resource is a blank node, types when it has
\* some.
ToDict(root) ==
  LET g == [iri \in DOMAIN res |->
              [children |-> res[iri].children,
               keys |-> {a \in {"name", "password", "children"} :
                           /\ a # "password"
                           /\ IF a = "children" THEN res[iri].children # <<>>
                              ELSE res[iri][a] # None}
                        \cup (IF is_blank_node(iri) THEN {} ELSE {"id"})
                        \cup (IF res[iri].types = {} THEN {} ELSE {"types"})]]
      out == Resource_to_dict(g,
               [ignored_iris |-> {root},
                stack |-> <<[self |-> root, rest |-> g[root].children]>>,
                mentions |-> <<>>,
                dicts |-> <<[iri |-> root, keys |-> g[root].keys]>>,
                fuel |-> MaxSteps])
  IN /\ last' = [op |-> "to_dict", root |-> root, mentions |-> out.mentions,
                 dicts |-> out.dicts, returned |-> out.stack = <<>>]
     /\ UNCHANGED <<sessions, res, tracked, to_delete, updated_iris, store,
                    counter, cache, nops>>

\* Four resources: usr1 and usr1#key of one document, usr2 of another, and
\* a blank node.  Each holds a list of resources in its object attribute;
\* password is a write-only attribute every resource has a value of.
InitToDict ==
  /\ sessions = {}
  /\ \E c1 \in ListsOver(DocumentIris, MaxLen),
        c2 \in ListsOver(DocumentIris, 1), c3 \in ListsOver(DocumentIris, 1),
        c4 \in ListsOver(DocumentIris, 1),
        n \in {None, "a"} :
       res = [iri \in DocumentIris |->
                [name |-> IF iri = "genid1" THEN n ELSE "a",
                 password |-> "s",
                 types |-> IF iri = "usr1#key" THEN {} ELSE {"Person"},
                 children |-> IF iri = "usr1" THEN c1
                              ELSE IF iri = "usr1#key" THEN c2
                              ELSE IF iri = "genid1" THEN c3 ELSE c4]]
  /\ tracked = {}
  /\ to_delete = {}
  /\ updated_iris = <<>>
  /\ store = {}
  /\ counter = 0
  /\ cache = {}
  /\ nops = 0
  /\ last = [op |-> "init", root |-> None, mentions |-> <<>>, dicts |-> <<>>,
             returned |-> TRUE]

NextToDict == \E root \in DOMAIN res : ToDict(root)

SpecToDict == InitToDict /\ [][NextToDict]_vars

\* ------------------------------------------------- a resource, updated
\* ObjectLDAttribute.__set__ on an attribute declared with `container`,
\* followed by the LDAttribute.__set__ it ends with.  A Model object with the
\* id iri is written "obj:" \o iri.  The members of a set or of a list are
\* replaced by their id; a value that is no container is passed as it is.
\* `accepts` is the answer of the value format of the attribute (which src
\* does not hold) to a value that is a Model object and not an IRI.
ObjectLDAttribute_descriptor_set(r, a, container, value, accepts) ==
  LET objects == {"obj:" \o iri : iri \in {"usr2", "genid1"}}
      f(x) == IF x \in objects
              THEN CHOOSE iri \in {"usr2", "genid1"} : x = "obj:" \o iri
              ELSE x
      values ==
        CASE value.kind = "set" -> SetOf({f(v) : v \in value.items})
          [] value.kind = "list" ->
               ListOf([k \in 1..Len(value.seq) |-> f(value.seq[k])])
          [] OTHER -> value
      passes ==
        \/ values.kind = "None"
        \/ /\ CONTAINER_REQUIREMENTS(container, values)
           /\ ~(container = None /\ values.kind = "list")
           /\ \A v \in members(values) :
                IF v \in objects THEN accepts
                ELSE value_format_check_value(a, v)
  IN IF ~passes THEN [r |-> r, raised |-> TRUE]
     ELSE [r |-> LDAttribute_set(r, a, IF is_empty_container(values)
                                       THEN NoneValue ELSE values),
           raised |-> FALSE]

\* _check_and_update_types that lets every new type in.
Resource_check_and_update_types_adding(r, registry, new_types, allow_new_type, allow_type_removal) ==
  LET current_types == r.types
      additional_types == new_types \ current_types
      missing_types == current_types \ new_types
      implicit_types == UNION {m.ancestry_iris : m \in r.models}
                          \ {m.class_iri : m \in r.models}
      removed_types == missing_types \ implicit_types
      found == ModelRegistry_find_models_and_types(registry, new_types, FALSE)
  IN IF new_types = current_types THEN [r |-> r, raised |-> "no"]
     ELSE IF removed_types # {} /\ ~allow_type_removal
     THEN [r |-> r, raised |-> "Removing"]
     ELSE IF additional_types # {} \/ removed_types # {}
     THEN [r |-> [r EXCEPT !.models = found.models, !.types = found.types],
           raised |-> "no"]
     ELSE [r |-> r, raised |-> "no"]

\* _check_and_update_types that takes every missing type for a removed one.
Resource_check_and_update_types_explicit(r, registry, new_types, allow_new_type, allow_type_removal) ==
  LET current_types == r.types
      additional_types == new_types \ current_types
      removed_types == current_types \ new_types
      found == ModelRegistry_find_models_and_types(registry, new_types, FALSE)
  IN IF new_types = current_types THEN [r |-> r, raised |-> "no"]
     ELSE IF additional_types # {} /\ ~allow_new_type
     THEN [r |-> r, raised |-> "Adding"]
     ELSE IF removed_types # {} /\ ~allow_type_removal
     THEN [r |-> r, raised |-> "Removing"]
     ELSE IF additional_types # {} \/ removed_types # {}
     THEN [r |-> [r EXCEPT !.models = found.models, !.types = found.types],
           raised |-> "no"]
     ELSE [r |-> r, raised |-> "no"]

\* _check_and_update_types(new_types, allow_new_type, allow_type_removal),
\* with _change_types.  raised tells whether OMUnauthorizedTypeChangeError
\* is raised and with which message: "Adding ... has not been allowed" or
\* "Removing ... has not been allowed".  The implicit types are the ancestry
\* of the models of the resource without the classes of these models.
Resource_check_and_update_types(r, registry, new_types, allow_new_type, allow_type_removal) ==
  LET current_types == r.types
      additional_types == new_types \ current_types
      missing_types == current_types \ new_types
      implicit_types == UNION {m.ancestry_iris : m \in r.models}
                          \ {m.class_iri : m \in r.models}
      removed_types == missing_types \ implicit_types
      found == ModelRegistry_find_models_and_types(registry, new_types, FALSE)
  IN IF new_types = current_types THEN [r |-> r, raised |-> "no"]
     ELSE IF additional_types # {} /\ ~allow_new_type
     THEN [r |-> r, raised |-> "Adding"]
     ELSE IF removed_types # {} /\ ~allow_type_removal
     THEN [r |-> r, raised |-> "Removing"]
     ELSE IF additional_types # {} \/ removed_types # {}
     THEN [r |-> [r EXCEPT !.models = found.models, !.types = found.types],
           raised |-> "no"]
     ELSE [r |-> r, raised |-> "no"]

\* update that sets the attributes before it raises for a key that is no
\* attribute.
Resource_update_checking_late(r, registry, full_dict, allow_new_type, allow_type_removal) ==
  LET attr_names ==
        IF "LocalPerson" \in {m.class_iri : m \in r.models}
        THEN LDAttrs ELSE {}
      raises(status, message) ==
        [r |-> r, status |-> status, message |-> message, saved |-> FALSE]
      typed ==
        IF "types" \in full_dict.keys
        THEN Resource_check_and_update_types(
               r, registry, full_dict.types, allow_new_type,
               allow_type_removal)
        ELSE [r |-> r, raised |-> "no"]
      value(a) == IF a \in full_dict.keys THEN full_dict[a] ELSE NoneValue
      assigned(x) ==
        [x EXCEPT
           !.val = [a \in LDAttrs |->
                      IF a \notin attr_names THEN x.val[a]
                      ELSE LDAttribute_descriptor_set(x, a, value(a)).r.val[a]],
           !.former = [a \in LDAttrs |->
                      IF a \notin attr_names THEN x.former[a]
                      ELSE LDAttribute_descriptor_set(
                             x, a, value(a)).r.former[a]]]
      saved(x) ==
        IF "LocalPerson" \in {m.class_iri : m \in x.models}
             /\ ~Model_is_valid(x)
        THEN [r |-> x, status |-> "OMRequiredPropertyError",
              message |-> "", saved |-> FALSE]
        ELSE [r |-> [x EXCEPT !.former = [a \in LDAttrs |-> NoFormerValue]],
              status |-> "ok", message |-> "", saved |-> TRUE]
  IN IF "id" \notin full_dict.keys
     THEN raises("OMWrongResourceError", "Cannot update an object without IRI")
     ELSE IF full_dict.id # r.iri
     THEN raises("OMWrongResourceError", "Wrong IRI")
     ELSE IF \E key \in full_dict.keys :
               key \notin attr_names \cup {"@context", "id", "types"}
     THEN [r |-> assigned(r), status |-> "OMAttributeAccessError",
           message |-> "", saved |-> FALSE]
     ELSE IF typed.raised # "no"
     THEN raises("OMUnauthorizedTypeChangeError", typed.raised)
     ELSE saved(assigned(typed.r))

\* update(full_dict, allow_new_type=..., allow_type_removal=...), is_end_user
\* and save at their defaults.  full_dict.keys are the keys of the dict; its
\* values are values the attributes accept.  The attributes are those of
\* the models the resource has when update is entered: the attributes of the
\* model LocalPerson.  save checks the validity of every attribute the
\* resource has by then before it writes, and the write acknowledges the
\* values.  The registry is read only: the answers it keeps in its cache are
\* left out.
Resource_update(r, registry, full_dict, allow_new_type, allow_type_removal) ==
  LET attr_names ==
        IF "LocalPerson" \in {m.class_iri : m \in r.models}
        THEN LDAttrs ELSE {}
      raises(status, message) ==
        [r |-> r, status |-> status, message |-> message, saved |-> FALSE]
      typed ==
        IF "types" \in full_dict.keys
        THEN Resource_check_and_update_types(
               r, registry, full_dict.types, allow_new_type,
               allow_type_removal)
        ELSE [r |-> r, raised |-> "no"]
      value(a) == IF a \in full_dict.keys THEN full_dict[a] ELSE NoneValue
      assigned(x) ==
        [x EXCEPT
           !.val = [a \in LDAttrs |->
                      IF a \notin attr_names THEN x.val[a]
                      ELSE LDAttribute_descriptor_set(x, a, value(a)).r.val[a]],
           !.former = [a \in LDAttrs |->
                      IF a \notin attr_names THEN x.former[a]
                      ELSE LDAttribute_descriptor_set(
                             x, a, value(a)).r.former[a]]]
      saved(x) ==
        IF "LocalPerson" \in {m.class_iri : m \in x.models}
             /\ ~Model_is_valid(x)
        THEN [r |-> x, status |-> "OMRequiredPropertyError",
              message |-> "", saved |-> FALSE]
        ELSE [r |-> [x EXCEPT !.former = [a \in LDAttrs |-> NoFormerValue]],
              status |-> "ok", message |-> "", saved |-> TRUE]
  IN IF "id" \notin full_dict.keys
     THEN raises("OMWrongResourceError", "Cannot update an object without IRI")
     ELSE IF full_dict.id # r.iri
     THEN raises("OMWrongResourceError", "Wrong IRI")
     ELSE IF \E key \in full_dict.keys :
               key \notin attr_names \cup {"@context", "id", "types"}
     THEN raises("OMAttributeAccessError", "")
     ELSE IF typed.raised # "no"
     THEN raises("OMUnauthorizedTypeChangeError", typed.raised)
     ELSE saved(assigned(typed.r))

\* add_type(additional_type): the type joins the types of the resource; the
\* models of the resource are left as they are.
Resource_add_type(r, additional_type) ==
  IF additional_type \notin r.types
  THEN [r EXCEPT !.types = @ \cup {additional_type}]
  ELSE r

\* The dicts update is called with: with or without an id, a types field,
\* the value of an attribute, and a key that is no attribute.
FullDicts ==
  {d \in [keys : {k \in SUBSET {"id", "types", "short_bio_en", "@context",
                                "nickname"} :
                    ~({"@context", "nickname"} \subseteq k)},
          id : {"usr1", "usr2"},
          types : {{}, {"LocalPerson", "Person"}, {"LocalPerson"}, {"Person"},
                   {"LocalPerson", "Person", "Agent"},
                   {"LocalPerson", "Agent"}, {"Agent"}},
          short_bio_en : {Single("hi")}] :
     /\ "id" \in d.keys \/ d.id = "usr2"
     /\ "types" \in d.keys <=> d.types # {}}

\* ------------------------------------------------ one resource, in use
\* bob.update(full_dict, allow_new_type=..., allow_type_removal=...).
Update(full_dict, allow_new_type, allow_type_removal) ==
  LET out == Resource_update(res[1], store, full_dict, allow_new_type,
                             allow_type_removal)
  IN /\ res' = <<out.r>>
     /\ last' = [op |-> "update", status |-> out.status,
                 message |-> out.message, saved |-> out.saved]
     /\ UNCHANGED <<sessions, tracked, to_delete, updated_iris, store,
                    counter, cache, nops>>

\* bob.add_type(additional_type).
AddType(additional_type) ==
  /\ res' = <<Resource_add_type(res[1], additional_type)>>
  /\ last' = [op |-> "add_type", status |-> "ok", message |-> "",
              saved |-> FALSE]
  /\ UNCHANGED <<sessions, tracked, to_delete, updated_iris, store, counter,
                 cache, nops>>

\* bob, a LocalPerson with a short bio, as saved; the registry holds the
\* models LocalPerson and Person, registered in one order or the other.
InitResource ==
  /\ sessions = {}
  /\ tracked = {}
  /\ to_delete = {}
  /\ updated_iris = <<>>
  /\ \E first \in {m \in RegistryModels : m.name \in {"LocalPerson", "Person"}} :
       \E second \in {m \in RegistryModels :
                        m.name \in {"LocalPerson", "Person"} \ {first.name}} :
         store =
           ModelRegistry_register(
             ModelRegistry_register(
               [model_classes |-> (None :> DefaultModel),
                model_names |-> (DefaultModel.name :> DefaultModel),
                model_descendants |-> (None :> {}),
                type_set_cache |->
                  [ts \in {} |-> [models |-> {}, types |-> {}]]],
               first, first.name).registry,
             second, second.name).registry
  /\ LET found ==
           ModelRegistry_find_models_and_types(store, {"LocalPerson"}, FALSE)
     IN res = <<[iri |-> "usr1", types |-> found.types,
                 models |-> found.models,
                 val |-> [a \in LDAttrs |->
                            IF a = "short_bio_en" THEN Single("hi")
                            ELSE NoneValue],
                 former |-> [a \in LDAttrs |-> NoFormerValue]]>>
  /\ counter = 0
  /\ cache = {}
  /\ nops = 0
  /\ last = [op |-> "init", status |-> "ok", message |-> "",
             saved |-> FALSE]

NextResource ==
  \/ \E full_dict \in FullDicts, allow_new_type \in BOOLEAN,
        allow_type_removal \in BOOLEAN :
       Update(full_dict, allow_new_type, allow_type_removal)
  \/ \E additional_type \in {"LocalPerson", "Person", "Agent"} :
       AddType(additional_type)

SpecResource == InitResource /\ [][NextResource]_vars

\* ------------------------------------- object attributes, assigned to
\* The values assigned: Model objects, IRIs, or both in one container.
ObjectValues ==
  {NoneValue, Single("usr2"), Single("obj:usr2"),
   SetOf({"usr2", "genid1"}), SetOf({"obj:usr2", "genid1"}),
   SetOf({"obj:usr2", "obj:genid1"}),
   ListOf(<<"genid1", "usr2">>), ListOf(<<"obj:genid1", "usr2">>),
   ListOf(<<"obj:genid1", "obj:usr2">>), ListOf(<<"usr2", "usr2">>)}

\* bob.children = value or bob.gpg_key = value; children is declared @list,
\* gpg_key without container.
SetObjects(a, value, accepts) ==
  LET out == ObjectLDAttribute_descriptor_set(
               res[1], a, IF a = "children" THEN "@list" ELSE None, value,
               accepts)
  IN /\ res' = <<out.r>>
     /\ last' = [op |-> "set", a |-> a, value |-> value,
                 raised |-> out.raised]
     /\ UNCHANGED <<sessions, tracked, to_delete, updated_iris, store,
                    counter, cache, nops>>

\* Neither attribute has a value and nothing has changed.
InitObjects ==
  /\ sessions = {}
  /\ res = <<[val |-> [a \in {"children", "gpg_key"} |-> NoneValue],
              former |-> [a \in {"children", "gpg_key"} |-> NoFormerValue]]>>
  /\ tracked = {}
  /\ to_delete = {}
  /\ updated_iris = <<>>
  /\ store = {}
  /\ counter = 0
  /\ cache = {}
  /\ nops = 0
  /\ last = [op |-> "init", a |-> None, value |-> NoneValue,
             raised |-> FALSE]

NextObjects ==
  \E a \in {"children", "gpg_key"}, value \in ObjectValues,
     accepts \in BOOLEAN : SetObjects(a, value, accepts)

SpecObjects == InitObjects /\ [][NextObjects]_vars

\* ------------------------------------------------ the incremental counter
\* Attempts a creator makes before it gives up with a store error.
MaxRetries == 2

\* The update of the counter that writes whatever the counter holds.
IncrementalGenerator_compare_and_set_blind(stored, n) ==
  [stored |-> n + 1, done |-> TRUE]

\* DELETE/INSERT WHERE (counter = n): the counter is moved to n + 1 when it
\* holds n, and is left alone otherwise; the store does it in one step.
IncrementalGenerator_compare_and_set(stored, n) ==
  IF stored = n THEN [stored |-> n + 1, done |-> TRUE]
  ELSE [stored |-> stored, done |-> FALSE]

\* A creator enters generate() or takes a new turn of its loop: it reads the
\* counter.
ReadCounter(c) ==
  /\ res[c].pc \in {"idle", "retry"}
  /\ res[c].pc = "idle" => nops < MaxOps
  /\ res' = [res EXCEPT ![c] = [pc |-> "read", n |-> counter,
                                attempts |-> IF @.pc = "idle" THEN 0
                                             ELSE @.attempts]]
  /\ nops' = IF res[c].pc = "idle" THEN nops + 1 ELSE nops
  /\ last' = [op |-> "read", creator |-> c, status |-> "ok", iri |-> None]
  /\ UNCHANGED <<sessions, tracked, to_delete, updated_iris, store, counter,
                 cache>>

\* The creator attempts the update with the value it has read: it returns
\* prefix + n when the update took place, tries again when it did not, and
\* raises a store error when it has no attempt left.
CompareAndSet(c) ==
  LET out == IncrementalGenerator_compare_and_set(counter, res[c].n)
      iri == "person/" \o ToString(res[c].n + 1)
      exhausted == res[c].attempts + 1 >= MaxRetries
  IN /\ res[c].pc = "read"
     /\ counter' = out.stored
     /\ res' = [res EXCEPT ![c] =
                  IF out.done THEN [@ EXCEPT !.pc = "idle"]
                  ELSE [@ EXCEPT !.pc = IF exhausted THEN "idle" ELSE "retry",
                                 !.attempts = @ + 1]]
     /\ updated_iris' = IF out.done THEN Append(updated_iris, iri)
                        ELSE updated_iris
     /\ last' = [op |-> "compare_and_set", creator |-> c,
                 status |-> IF out.done THEN "ok"
                            ELSE IF exhausted THEN "DataStoreError"
                            ELSE "retry",
                 iri |-> IF out.done THEN iri ELSE None]
     /\ UNCHANGED <<sessions, tracked, to_delete, store, cache, nops>>

\* The counter of the class at zero, and creators that have not started.
InitCounter ==
  /\ sessions = {}
  /\ res = [c \in 1..(MaxInst + 1) |-> [pc |-> "idle", n |-> 0, attempts |-> 0]]
  /\ tracked = {}
  /\ to_delete = {}
  /\ updated_iris = <<>>
  /\ store = {}
  /\ counter = 0
  /\ cache = {}
  /\ nops = 0
  /\ last = [op |-> "init", creator |-> 0, status |-> "ok", iri |-> None]

NextCounter ==
  \E c \in DOMAIN res : ReadCounter(c) \/ CompareAndSet(c)

SpecCounter == InitCounter /\ [][NextCounter]_vars

\* ------------------------------------------------------ the CRUD controller
\* A subject of the new document that is a blank node of the parser (a
\* BNode, not a skolem IRI).
BlankSubject == "_:b"

\* The resource update makes of one subject of the document: the resource
\* of the store with the values of the document (an attribute the document
\* does not give becomes None), or a new resource when the store has none.
\* A BNode becomes a new resource with a skolem IRI of its own.
CRUDController_resource(w, subject) ==
  LET iri == IF subject.iri = BlankSubject THEN "genid2" ELSE subject.iri
      got == IF subject.iri = BlankSubject
             THEN [w |-> w, found |-> FALSE, sr |-> NoStoreResource]
             ELSE RelatedResource(w, iri)
      base == IF got.found THEN got.sr
              ELSE [NoStoreResource EXCEPT !.iri = iri, !.types = Types,
                                           !.is_new = TRUE]
  IN [w |-> got.w,
      sr |-> LDAttribute_set(LDAttribute_set(base, "name", subject.name),
                             "friend", None)]

\* _update_graph that saves each resource as soon as it is made.
RECURSIVE CRUDController_update_graph_eager(_, _, _)
CRUDController_update_graph_eager(w, base_iri, graph) ==
  IF graph = <<>> THEN [w |-> w, status |-> "ok"]
  ELSE LET subject == Head(graph)
           made == CRUDController_resource(w, subject)
           saved == StoreResource_save(made.w, made.sr, FALSE)
       IN IF subject.iri # BlankSubject /\ is_blank_node(subject.iri)
          THEN [w |-> w, status |-> "OMForbiddenSkolemizedIRIError"]
          ELSE IF subject.iri # BlankSubject /\ hashless_iri(subject.iri) # base_iri
          THEN [w |-> w, status |-> "OMDifferentBaseIRIError"]
          ELSE IF saved.status # "ok"
          THEN [w |-> saved.w, status |-> "OMEditError"]
          ELSE CRUDController_update_graph_eager(saved.w, base_iri,
                                                 Tail(graph))

\* _update_graph that leaves the resources the document omits.
CRUDController_update_graph_keeping(w, base_iri, graph) ==
  LET RECURSIVE create(_, _, _)
      create(o, subjects, k) ==
        IF k > Len(subjects) \/ o.status # "ok" THEN o
        ELSE LET made == CRUDController_resource(o.w, subjects[k])
             IN IF is_blank_node(subjects[k].iri)
                THEN [o EXCEPT !.status = "OMForbiddenSkolemizedIRIError"]
                ELSE IF subjects[k].iri # BlankSubject
                        /\ hashless_iri(subjects[k].iri) # base_iri
                THEN [o EXCEPT !.status = "OMDifferentBaseIRIError"]
                ELSE create([o EXCEPT !.w = made.w,
                                      !.resources = Append(@, made.sr)],
                            subjects, k + 1)
      RECURSIVE save(_, _, _)
      save(w1, resources, k) ==
        IF k > Len(resources) THEN w1
        ELSE save(StoreResource_save(w1, resources[k], FALSE).w, resources,
                  k + 1)
      bnode_subjects == SelectSeq(graph, LAMBDA s : s.iri = BlankSubject)
      other_subjects == SelectSeq(graph, LAMBDA s : s.iri # BlankSubject)
      created == create([w |-> w, status |-> "ok", resources |-> <<>>],
                        bnode_subjects \o other_subjects, 1)
  IN IF created.status # "ok"
     THEN [w |-> created.w, status |-> created.status]
     ELSE IF \E k \in DOMAIN created.resources :
               ~is_valid(created.resources[k])
     THEN [w |-> created.w, status |-> "OMEditError"]
     ELSE [w |-> save(created.w, created.resources, 1), status |-> "ok"]

\* _update_graph(base_iri, graph), the types of the document being those of
\* the resources.  graph lists the subjects of the document with their
\* values, in the order the set of subjects is gone through.  The resources
\* are made (the blank nodes first), all of them are checked, all of them
\* are saved, and the resources of the store that have the base IRI and are
\* not among them are deleted.  Outcomes: [w, status].
CRUDController_update_graph(w, base_iri, graph) ==
  LET RECURSIVE create(_, _, _)
      create(o, subjects, k) ==
        IF k > Len(subjects) \/ o.status # "ok" THEN o
        ELSE LET made == CRUDController_resource(o.w, subjects[k])
             IN IF is_blank_node(subjects[k].iri)
                THEN [o EXCEPT !.status = "OMForbiddenSkolemizedIRIError"]
                ELSE IF subjects[k].iri # BlankSubject
                        /\ hashless_iri(subjects[k].iri) # base_iri
                THEN [o EXCEPT !.status = "OMDifferentBaseIRIError"]
                ELSE create([o EXCEPT !.w = made.w,
                                      !.resources = Append(@, made.sr)],
                            subjects, k + 1)
      RECURSIVE save(_, _, _)
      save(w1, resources, k) ==
        IF k > Len(resources) THEN w1
        ELSE save(StoreResource_save(w1, resources[k], FALSE).w, resources,
                  k + 1)
      RECURSIVE remove(_, _)
      remove(w1, iris) ==
        IF iris = <<>> THEN w1
        ELSE LET r == RelatedResource(w1, Head(iris))
             IN remove(IF r.found
                       THEN StoreResource_delete(
                              r.w, <<r.sr>>, Cardinality(SubjectsOf(r.w.store)))
                       ELSE r.w,
                       Tail(iris))
      bnode_subjects == SelectSeq(graph, LAMBDA s : s.iri = BlankSubject)
      other_subjects == SelectSeq(graph, LAMBDA s : s.iri # BlankSubject)
      created == create([w |-> w, status |-> "ok", resources |-> <<>>],
                        bnode_subjects \o other_subjects, 1)
      saved == save(created.w, created.resources, 1)
      all_resource_iris ==
        {s \in SubjectsOf(saved.store) : hashless_iri(s) = base_iri}
      resource_iris_to_remove ==
        all_resource_iris
          \ {created.resources[k].iri : k \in DOMAIN created.resources}
  IN IF created.status # "ok"
     THEN [w |-> created.w, status |-> created.status]
     ELSE IF \E k \in DOMAIN created.resources :
               ~is_valid(created.resources[k])
     THEN [w |-> created.w, status |-> "OMEditError"]
     ELSE [w |-> remove(saved, SeqOf(resource_iris_to_remove)),
           status |-> "ok"]

\* delete(base_iri): every resource the store has for the base IRI is
\* deleted, each with the blank nodes it refers to.
CRUDController_delete(w, base_iri) ==
  LET RECURSIVE remove(_, _)
      remove(w1, iris) ==
        IF iris = <<>> THEN w1
        ELSE LET r == RelatedResource(w1, Head(iris))
             IN remove(IF r.found
                       THEN StoreResource_delete(
                              r.w, <<r.sr>>, Cardinality(SubjectsOf(r.w.store)))
                       ELSE r.w,
                       Tail(iris))
  IN remove(w, SeqOf({s \in SubjectsOf(w.store) :
                        hashless_iri(s) = base_iri}))

\* The documents sent: up to MaxLen subjects, no subject twice; a subject is
\* a resource of the document usr1 (with a name or without one), a resource
\* of another document, a skolem IRI or a BNode.
Documents ==
  {g \in ListsOver([iri : {"usr1", "usr1#key", "usr2", "genid1", BlankSubject},
                    name : {None, "b"}], MaxLen) :
     /\ \A i, j \in DOMAIN g : i # j => g[i].iri # g[j].iri
     /\ \A i \in DOMAIN g :
          g[i].iri \notin {"usr1", "usr1#key"} => g[i].name = "b"}

\* ------------------------------------------------- one controller, in use
\* controller.update(base_iri, new_document, content_type).
CrudUpdate(base_iri, graph) ==
  LET out == CRUDController_update_graph(World, base_iri, graph)
  IN /\ \A k \in DOMAIN graph :
          graph[k].iri = BlankSubject => "genid2" \notin SubjectsOf(store)
     /\ store' = out.w.store
     /\ cache' = out.w.cache
     /\ last' = [op |-> "update", base_iri |-> base_iri,
                 status |-> out.status,
                 subjects |-> {graph[k].iri : k \in DOMAIN graph}]
     /\ UNCHANGED <<sessions, res, tracked, to_delete, updated_iris, counter,
                    nops>>

\* controller.delete(base_iri).
CrudDelete(base_iri) ==
  LET w == CRUDController_delete(World, base_iri)
  IN /\ store' = w.store
     /\ cache' = w.cache
     /\ last' = [op |-> "delete", base_iri |-> base_iri, status |-> "ok",
                 subjects |-> {}]
     /\ UNCHANGED <<sessions, res, tracked, to_delete, updated_iris, counter,
                    nops>>

\* The store after usr1, usr1#key, usr2 and the blank node genid1 were
\* saved; usr1 and usr2 refer to the blank node or to nothing.
InitCrud ==
  /\ sessions = {}
  /\ res = <<>>
  /\ tracked = {}
  /\ to_delete = {}
  /\ updated_iris = <<>>
  /\ \E f1 \in {None, "genid1"}, f2 \in {None, "genid1"},
        k \in {None, "a"} :
       LET sr(iri, name, friend) ==
             [iri |-> iri, types |-> Types, former_types |-> {},
              is_new |-> TRUE,
              val |-> [a \in Attrs |-> IF a = "name" THEN name ELSE friend],
              former |-> [a \in Attrs |-> [has |-> TRUE, v |-> None]]]
           g1 == Model_save({}, sr("genid1", "b", None))
           g2 == Model_save(g1, sr("usr2", "a", f2))
           g3 == Model_save(g2, sr("usr1", "a", f1))
       IN store = IF k = None THEN g3
                  ELSE Model_save(g3, sr("usr1#key", k, None))
  /\ counter = 0
  /\ cache = {}
  /\ nops = 0
  /\ last = [op |-> "init", base_iri |-> None, status |-> "ok",
             subjects |-> {}]

NextCrud ==
  \/ \E graph \in Documents : CrudUpdate("usr1", graph)
  \/ \E base_iri \in {"usr1", "usr2"} : CrudDelete(base_iri)

SpecCrud == InitCrud /\ [][NextCrud]_vars

\* ------------------------------------------- a store resource, serialised
\* The models of the resource in use here, in the order of their priority,
\* and the names of their attributes: both models have an attribute `name`,
\* each with a value of its own.
PickleModels == <<"LocalPerson", "Agent">>

om_attributes(model) ==
  IF model = "LocalPerson" THEN {"name", "bio"} ELSE {"name"}

PickleSlots ==
  {s \in {"LocalPerson", "Agent"} \X {"name", "bio"} : s[2] \in om_attributes(s[1])}

Reverse(seq) == [k \in 1..Len(seq) |-> seq[Len(seq) + 1 - k]]

\* The first model of the resource that has the attribute: the model
\* __getattr__, __setattr__ and _get_om_attribute take it from.
Resource_model_of(r, name) ==
  r.models[CHOOSE k \in DOMAIN r.models :
             /\ name \in om_attributes(r.models[k])
             /\ \A j \in 1..(k - 1) : name \notin om_attributes(r.models[j])]

\* __getattr__(name) for the name of an attribute.
Resource_getattr(r, name) == r.val[<<Resource_model_of(r, name), name>>]

\* __getstate__: the state holds _id, _types, the name of the store and the
\* value of every attribute that has one, the models being gone through in
\* reversed order; reverse() is called on the list of models of the
\* resource itself.  Outcome: the resource and the state.
StoreResource_getstate(r) ==
  LET reversed_models == Reverse(r.models)
      RECURSIVE fill(_, _)
      fill(state, ms) ==
        IF ms = <<>> THEN state
        ELSE fill([state EXCEPT
                     !.keys = @ \cup {n \in om_attributes(Head(ms)) :
                                        r.val[<<Head(ms), n>>] # None},
                     !.values = [n \in DOMAIN @ |->
                                   IF /\ n \in om_attributes(Head(ms))
                                      /\ r.val[<<Head(ms), n>>] # None
                                   THEN r.val[<<Head(ms), n>>] ELSE @[n]]],
                  Tail(ms))
  IN [r |-> [r EXCEPT !.models = reversed_models],
      state |-> fill([keys |-> {"_id", "_types", "store_name"},
                      _id |-> r.iri, _types |-> r.types,
                      values |-> [n \in {"name", "bio"} |-> None]],
                     reversed_models)]

\* __setstate__(state): a required field that is missing raises
\* OMInternalError, the read of state["_is_new"] raises KeyError when the
\* state has no such key; then the models are those of the types and every
\* value is set on the first model that has the attribute and acknowledged.
StoreResource_setstate(state) ==
  LET blank == [iri |-> state._id, types |-> state._types,
                models |-> PickleModels,
                val |-> [s \in PickleSlots |-> None],
                former |-> [s \in PickleSlots |-> FALSE]]
      names == state.keys \ {"store_name", "_id", "_types", "_is_new"}
  IN IF ~({"_id", "_types", "store_name"} \subseteq state.keys)
     THEN [status |-> "OMInternalError", r |-> blank]
     ELSE IF "_is_new" \notin state.keys
     THEN [status |-> "KeyError", r |-> blank]
     ELSE [status |-> "ok",
           r |-> [blank EXCEPT
                    !.val = [s \in PickleSlots |->
                               IF s[2] \in names
                                  /\ s[1] = Resource_model_of(blank, s[2])
                               THEN state.values[s[2]] ELSE None]]]

\* ------------------------------------------- one store resource, cached
\* resource.name = value, resource.bio = value: every model that has the
\* attribute receives the value.
PickleSet(name, value) ==
  LET slots == {s \in PickleSlots : s[2] = name}
  IN /\ res' = <<[res[1] EXCEPT
                    !.former = [s \in PickleSlots |->
                                  IF s \in slots
                                  THEN @[s] \/ res[1].val[s] # value ELSE @[s]],
                    !.val = [s \in PickleSlots |->
                               IF s \in slots THEN value ELSE @[s]]]>>
     /\ last' = [op |-> "set", status |-> "ok", r |-> res[1]]
     /\ UNCHANGED <<sessions, tracked, to_delete, updated_iris, store, counter,
                    cache, nops>>

\* The resource cache pickles the resource: the state is kept in the cache.
GetState ==
  LET out == StoreResource_getstate(res[1])
  IN /\ res' = <<out.r>>
     /\ cache' = {out.state}
     /\ last' = [op |-> "getstate", status |-> "ok", r |-> res[1]]
     /\ UNCHANGED <<sessions, tracked, to_delete, updated_iris, store, counter,
                    nops>>

\* The resource cache unpickles the state it keeps.
SetState ==
  /\ \E state \in cache :
       LET out == StoreResource_setstate(state)
       IN last' = [op |-> "setstate", status |-> out.status, r |-> out.r]
  /\ UNCHANGED <<sessions, res, tracked, to_delete, updated_iris, store,
                 counter, cache, nops>>

\* A resource of both models as loaded from the store: each attribute has
\* the value of its own property, and the values are acknowledged.
InitPickle ==
  /\ sessions = {}
  /\ \E value \in [PickleSlots -> {None, "a", "b"}] :
       res = <<[iri |-> "usr1", types |-> {"LocalPerson", "Agent", "Person"},
                models |-> PickleModels, val |-> value,
                former |-> [s \in PickleSlots |-> FALSE]]>>
  /\ tracked = {}
  /\ to_delete = {}
  /\ updated_iris = <<>>
  /\ store = {}
  /\ counter = 0
  /\ cache = {}
  /\ nops = 0
  /\ last = [op |-> "init", status |-> "ok", r |-> res[1]]

NextPickle ==
  \/ \E name \in {"name", "bio"}, value \in {None, "a", "b"} :
       PickleSet(name, value)
  \/ GetState
  \/ SetState

SpecPickle == InitPickle /\ [][NextPickle]_vars

\* ------------------------------------------------------------- properties
Reads =={"get", "filter", "first", "sparql_filter"}

\* An assignment of the resource is not yet acknowledged by the store.
Dirty(r) == \E a \in Attrs : has_new_value(r, a)

\* The values of r are values the graph g holds for the IRI of r.
ValuesInGraph(r, g) ==
  \A a \in Attrs :
    IF ObjectsOf(g, r.iri, om_property[a].iri) = {} THEN r.val[a] = None
    ELSE r.val[a] \in ObjectsOf(g, r.iri, om_property[a].iri)

\* C1: new, get, filter and first return, for an IRI the session already
\* tracks, the instance it tracks; get asks the store only for an IRI the
\* session does not track.
C1_IdentityStable ==
  last.op \in Reads \cup {"new"} =>
    /\ \A x \in last.ret : \A y \in last.prev :
         res[y].iri = res[x].iri => x = y
    /\ (last.op = "get" /\ last.consulted) =>
         \A y \in last.prev : res[y].iri # last.iri

C3_InvalidAbortsCommit ==
  [][(/\ last'.op = "flush"
      /\ \E i \in modified_resources(World, last'.sess) :
           res[i].val["name"] = None)
       => /\ last'.status = "invalid"
          /\ store' = store /\ counter' = counter
          /\ res' = res /\ tracked' = tracked /\ to_delete' = to_delete]_vars

C3_Witness ==
  /\ last.op = "flush" /\ last.status = "invalid"
  /\ \E i \in modified_resources(World, last.sess) :
       /\ i < last.failed
       /\ res[i].val["name"] # None
       /\ res[i].is_new

\* What get(iri) through session s2 returns when session last.sess has just
\* committed: a resource whose values are in the store if the commit wrote
\* the resource i, nothing if it deleted it.
ReadSeesCommit(s2, i) ==
  \A o \in Session_get(World, s2, res[i].iri) :
    IF i \in tracked
    THEN /\ o.ret # {}
         /\ \A x \in o.ret : ValuesInGraph(o.w.res[x], store)
    ELSE o.ret = {}

\* The resources the last commit wrote or deleted.
Committed == (last.written \cap tracked) \cup (last.prev \ tracked)

\* C4 as stated: after a successful commit of one session, get() through
\* any other session returns, for every resource the commit wrote or
\* deleted, the state the commit left in the store.
C4_ReadSeesCommit ==
  (last.op = "flush" /\ last.status = "ok") =>
    \A s2 \in sessions \ {last.sess} : \A i \in Committed :
      ReadSeesCommit(s2, i)

\* C4, amended: after a successful commit of one session the values of
\* every resource it wrote are in the store; get() through another session
\* that does not track the resource returns the state the commit left in
\* the store, and so does every resource filter() newly loads; a resource
\* the other session tracks is returned as that session holds it.
C4_StoreServedReadSeesCommit ==
  (last.op = "flush" /\ last.status = "ok") =>
    /\ \A i \in last.written \cap tracked : ValuesInGraph(res[i], store)
    /\ \A s2 \in sessions \ {last.sess} :
         /\ \A i \in Committed :
              IF tracker_find(World, s2, res[i].iri) = NoInst
              THEN ReadSeesCommit(s2, i)
              ELSE \A o \in Session_get(World, s2, res[i].iri) :
                     /\ o.ret = {tracker_find(World, s2, res[i].iri)}
                     /\ o.w.res = res
         /\ \A o \in Session_filter(World, s2) : \A x \in o.ret :
              IF x > Len(res) THEN ValuesInGraph(o.w.res[x], store)
              ELSE o.w.res[x] = res[x]

\* One session commits a new name for a resource the other does not track.
C4_Witness ==
  /\ last.op = "flush" /\ last.status = "ok"
  /\ \E i \in last.written \cap tracked :
       /\ res[i].val["name"] = "b"
       /\ ~res[i].is_new
       /\ \E s2 \in sessions \ {last.sess} :
            tracker_find(World, s2, res[i].iri) = NoInst

\* C5: a read of the session leaves a resource with unacknowledged
\* assignments tracked and untouched, get(iri) returns that very resource,
\* and no read returns another object for its IRI.
C5_ReadsOwnWrites ==
  [][last'.op \in Reads =>
       \A y \in tracked :
         (res[y].sess = last'.sess /\ Dirty(res[y])) =>
           /\ y \in tracked' /\ res'[y] = res[y]
           /\ (last'.op = "get" /\ last'.iri = res[y].iri) => last'.ret = {y}
           /\ \A x \in last'.ret : res'[x].iri = res[y].iri => x = y]_vars

\* get returned a resource whose assigned name is not the name in the store.
C5_Witness ==
  /\ last.op = "get"
  /\ \E y \in last.ret :
       /\ has_new_value(res[y], "name")
       /\ res[y].val["name"] = "b"
       /\ ObjectsOf(store, res[y].iri, om_property["name"].iri) = {"a"}

\* C6: new() without an IRI gives a temporary Id and new(iri) the permanent
\* Id iri; after a successful commit every resource the session tracked has
\* a permanent IRI, and the session finds it under that IRI and no other.
C6_PermanentAfterCommit ==
  /\ (last.op = "new" /\ last.status = "ok") =>
       \A x \in last.ret :
         IF last.iri = None THEN ~is_permanent(res[x].iri)
         ELSE res[x].iri = last.iri
  /\ (last.op = "flush" /\ last.status = "ok") =>
       /\ \A i \in last.prev : is_permanent(res[i].iri)
       /\ \A i \in tracked :
            res[i].sess = last.sess =>
              /\ tracker_find(World, last.sess, res[i].iri) = i
              /\ \A o \in Session_get(World, last.sess, res[i].iri) :
                   o.ret = {i}
       /\ \A i \in tracked, t \in TmpIris :
            res[i].sess = last.sess =>
              tracker_find(World, last.sess, t) = NoInst

C6_Witness ==
  /\ last.op = "flush" /\ last.status = "ok"
  /\ \E i \in tracked : i \in last.written /\ res[i].iri \in GenIris

\* C7: no triple of the store has a temporary IRI as subject or object, and
\* after a successful commit every IRI a written resource refers to is a
\* permanent one the store knows or the caller named.
C7_NoTemporaryIriInStore ==
  /\ \A t \in store : t[1] \notin TmpIris /\ t[3] \notin TmpIris
  /\ (last.op = "flush" /\ last.status = "ok") =>
       \A i \in last.written \cap tracked :
         res[i].val["friend"] # None =>
           <<res[i].iri, om_property["friend"].iri,
             get_updated_iri(World, last.sess, res[i].val["friend"])>> \in store

\* Two resources created in the same commit refer to each other.
C7_Witness ==
  \E x, y \in GenIris :
    /\ x # y
    /\ <<x, om_property["friend"].iri, y>> \in store
    /\ <<y, om_property["friend"].iri, x>> \in store

C9_CleanAfterCommit ==
  /\ []((last.op = "flush" /\ last.status = "ok") =>
          /\ \A i \in last.prev :
               /\ \A a \in Attrs : ~has_new_value(res[i], a)
               /\ res[i].former_types = res[i].types
               /\ ~res[i].is_new
          /\ modified_resources(World, last.sess) = {}
          /\ resources_to_delete(World, last.sess) = {})
  /\ [][(/\ last.op = "flush" /\ last.status = "ok"
         /\ last'.op = "flush" /\ last'.sess = last.sess)
          => /\ store' = store /\ counter' = counter
             /\ res' = res /\ tracked' = tracked
             /\ last'.written = {} /\ last'.status = "ok"]_vars

\* A commit that wrote and deleted.
C9_Witness ==
  /\ last.op = "flush" /\ last.status = "ok"
  /\ last.written # {}
  /\ last.prev # {i \in tracked : res[i].sess = last.sess}

\* C10: the former value of an attribute is the value it had at the last
\* acknowledgement, whatever was assigned since; without a former value the
\* attribute holds the acknowledged value; and an attribute that counts as
\* changed stays so through every later assignment.
C10_FormerValueSnapshot ==
  /\ [](\A i \in 1..Len(res) : \A a \in Attrs :
          IF has_new_value(res[i], a)
          THEN res[i].former[a].v = res[i].acked[a]
          ELSE res[i].val[a] = res[i].acked[a])
  /\ [][last'.op = "set" =>
          \A i \in 1..Len(res) : \A a \in Attrs :
            has_new_value(res[i], a) => has_new_value(res'[i], a)]_vars

\* Assigned twice, the second time back to the acknowledged value.
C10_Witness ==
  \E i \in 1..Len(res) :
    /\ ~res[i].is_new
    /\ last.op = "set"
    /\ has_new_value(res[i], "name")
    /\ res[i].val["name"] = res[i].acked["name"]
    /\ res[i].acked["name"] = "a"

\* The shapes C18 has rejected: a scalar or a list for @set, a scalar or a
\* set for @list, a set or a list without a declared container.
ContainerMismatch(container, kind) ==
  \/ container = "@set" /\ kind \in {"single", "list"}
  \/ container = "@list" /\ kind \in {"single", "set"}
  \/ container = None /\ kind \in {"set", "list"}

\* C18 as stated: an assignment whose value does not have the shape of the
\* container of the attribute (a set or a list where no container is
\* declared included) raises, and the object is as before.
C18_ContainerMismatchRaises ==
  [][(/\ last'.op = "set"
      /\ ContainerMismatch(metadata[last'.attr].container, last'.value.kind))
       => (last'.status = "raised" /\ res' = res)]_vars

\* C18, amended: a scalar or a list assigned to a @set attribute, a scalar
\* or a set assigned to a @list attribute and a list assigned to an
\* attribute without container raise, and the current and the former value
\* are as before; a set of well-typed values assigned to an attribute
\* without container is accepted and becomes its value (None when empty).
C18_DeclaredMismatchRaises ==
  [][last'.op = "set" =>
       LET a == last'.attr
           value == last'.value
           c == metadata[a].container
       IN /\ (ContainerMismatch(c, value.kind)
                /\ ~(c = None /\ value.kind = "set"))
               => (last'.status = "raised" /\ res' = res)
          /\ (c = None /\ value.kind = "set" /\ value.items \subseteq Members(a))
               => /\ last'.status = "ok"
                  /\ res'[1].val[a] = IF value.items = {} THEN NoneValue
                                      ELSE value]_vars

\* A list is refused by an attribute without container that has a value
\* and a former value.
C18_Witness ==
  /\ last.op = "set" /\ last.status = "raised"
  /\ metadata[last.attr].container = None
  /\ last.value = ListOf(<<"hi">>)
  /\ res[1].val[last.attr] = Single("hi")
  /\ res[1].former[last.attr] = [has |-> TRUE, v |-> NoneValue]

\* C19: an empty set assigned to a @set attribute and an empty list
\* assigned to a @list attribute do what the assignment of None does: the
\* attribute reads None, does not satisfy a requirement, and gets the value
\* it had as former value only if it had one and no former value yet.
C19_EmptyContainerIsNone ==
  [][(/\ last'.op = "set"
      /\ is_empty_container(last'.value)
      /\ ~ContainerMismatch(metadata[last'.attr].container, last'.value.kind))
       => LET a == last'.attr
              r == res[1]
              q == res'[1]
          IN /\ last'.status = "ok"
             /\ q = LDAttribute_descriptor_set(r, a, NoneValue).r
             /\ q.val[a] = NoneValue
             /\ metadata[a].is_required
                  => ~LDAttribute_is_locally_satisfied(q, a)
             /\ q.former[a] =
                  IF r.former[a].has \/ r.val[a] = NoneValue THEN r.former[a]
                  ELSE [has |-> TRUE, v |-> r.val[a]]
             /\ (r.val[a] = NoneValue /\ ~r.former[a].has)
                  => ~q.former[a].has]_vars

\* The empty set is assigned to the required set, which held {m1} since
\* the last acknowledgement.
C19_Witness ==
  /\ last.op = "set" /\ last.attr = "mboxes" /\ last.value = SetOf({})
  /\ res[1].val["mboxes"] = NoneValue
  /\ res[1].former["mboxes"] = [has |-> TRUE, v |-> SetOf({"m1"})]

\* One of the required attributes of r has no value, and no other attribute
\* bound to the same property has one.
LacksRequired(r) ==
  \E a \in LDAttrs :
    /\ metadata[a].is_required
    /\ \A b \in LDAttrs :
         metadata[b].property = metadata[a].property => r.val[b] = NoneValue

\* C17: a resource is invalid exactly when a required attribute has no
\* value and no other attribute of the same property has one; save() raises
\* RequiredPropertyError exactly when is_valid() is false, and then writes
\* nothing.
C17_InvalidIffRequiredUnsatisfied ==
  [][(last'.op = "save") =>
       /\ Model_is_valid(res[1]) = ~LacksRequired(res[1])
       /\ (last'.status = "RequiredPropertyError") = ~Model_is_valid(res[1])
       /\ (last'.status = "RequiredPropertyError") =>
            (store' = store /\ counter' = counter /\ res' = res)]_vars

\* bob, saved with an English bio, has both variants cleared and a mailbox:
\* the save raised and the graph still holds the bio. 
C17_Witness ==
  /\ last.op = "save"
  /\ last.status = "RequiredPropertyError"
  /\ res[1].val["short_bio_en"] = NoneValue
  /\ res[1].val["short_bio_fr"] = NoneValue
  /\ res[1].val["mboxes"] # NoneValue
  /\ convert_value_to_turtle("short_bio_en", "hi")
       \in ObjectsOf(store, "usr1", "bio:short")

\* The terms of a value of the attribute a: one per member, or the sequence
\* of the terms of a list.
TermsOf(a, value) ==
  IF value.kind = "None" THEN {}
  ELSE IF value.kind = "list"
  THEN {[k \in 1..Len(value.seq) |-> convert_value_to_turtle(a, value.seq[k])]}
  ELSE {convert_value_to_turtle(a, v) : v \in members(value)}

\* What the graph holds for the attribute a of iri: the terms of a that are
\* objects of its property, or for a @list attribute the lists that start
\* at an object of its property.
Held(g, iri, a) ==
  IF metadata[a].container = "@list"
  THEN {ListAt(g, h, Cardinality(g)) : h \in ObjectsOf(g, iri, metadata[a].property)}
  ELSE {t \in ObjectsOf(g, iri, metadata[a].property) :
          \E v \in Members(a) \cup Iris : convert_value_to_turtle(a, v) = t}

\* C11 as stated: a successful save removes exactly the former values of
\* the changed attributes and adds exactly their current values; an
\* attribute that has not changed is left as it is in the store.
C11_SaveWritesTheDifference ==
  [][(last'.op = "save" /\ last'.status = "ok") =>
       \A a \in LDAttrs :
         Held(store', res[1].iri, a) =
           IF has_new_value(res[1], a)
           THEN (Held(store, res[1].iri, a) \ TermsOf(a, res[1].former[a].v))
                  \cup TermsOf(a, res[1].val[a])
           ELSE Held(store, res[1].iri, a)]_vars

\* C13 as stated: after delete() the store has no triple whose subject is
\* the resource.
C13_DeleteLeavesNoTriple ==
  [][(last'.op = "delete") =>
       {t \in store' : t[1] = res[1].iri} = {}]_vars

\* C20 as stated: after a successful save of a changed @list attribute the
\* store holds one collection for its property, spelling the current list,
\* and every reload reads that list.
C20_ListIsTheOnlyCollection ==
  [][(/\ last'.op = "save" /\ last'.status = "ok"
      /\ has_new_value(res[1], "children")
      /\ res[1].val["children"].kind = "list") =>
       /\ Held(store', res[1].iri, "children")
            = TermsOf("children", res[1].val["children"])
       /\ \A o \in Model_load_from_graph(store', res[1].iri) :
            o.val["children"] = res[1].val["children"]]_vars

RECURSIVE BlankNodesFrom(_, _, _)
BlankNodesFrom(g, iris, fuel) ==
  LET next == {o \in UNION {ObjectsOf(g, i, om_property[a].iri) :
                              i \in iris, a \in ObjectAttrs} :
                 is_blank_node(o)}
  IN IF fuel = 0 \/ next \subseteq iris THEN iris
     ELSE BlankNodesFrom(g, iris \cup next, fuel - 1)

\* The blank nodes deleted with the resource r: those its object values
\* lead to.
CascadeOf(g, r) ==
  LET direct == {o \in {r.val[a] : a \in ObjectAttrs} : is_blank_node(o)}
  IN BlankNodesFrom(g, direct, Cardinality(g))

C15_SharedBlankNodeSurvives ==
  [][(last'.op = "delete") =>
       \A b \in GenidIris :
         (\E t \in store' : /\ t[3] = b
                             /\ t[2] \in {om_property[a].iri : a \in ObjectAttrs})
           => {t \in store' : t[1] = b} = {t \in store : t[1] = b}]_vars

\* The IRIs of the former and of the current values of the changed object
\* attributes of r.
ChangedObjectIris(r) ==
  UNION {{r.val[a], r.former[a].v} :
           a \in {b \in ObjectAttrs : has_new_value(r, b)}} \ {None}

\* C16 as stated: after a successful save and after a delete of a resource,
\* the cache holds no resource that is a former or a current value of one
\* of its changed object attributes.
C16_ChangedObjectsEvicted ==
  [][(last'.op \in {"save", "delete"} /\ last'.status = "ok") =>
       \A c \in cache' : c.iri \notin ChangedObjectIris(res[1])]_vars

\* The models of the registry r whose class IRI is in the type set T and
\* none of whose descendant models (the other models of r that have the class
\* in their ancestry) has its class IRI in T; the default model when there
\* is none.
LeafModelsOf(r, T) ==
  LET registered == {r.model_classes[c] : c \in DOMAIN r.model_classes}
      leaf == {m \in registered :
                 /\ m.class_iri \in T
                 /\ ~ \E d \in registered :
                        /\ d # m
                        /\ m.class_iri \in d.ancestry_iris
                        /\ d.class_iri \in T}
  IN IF leaf = {} THEN {DefaultModel} ELSE leaf

\* C27 as stated: find_models_and_types(T) returns as models exactly the
\* registered models whose class IRI is in T and none of whose descendant
\* models has its class IRI in T, whatever the order in which the models
\* were registered, and the default model only when there is no such model.
C27_LeafModelsWhateverTheOrder ==
  (last.op = "find" /\ last.arg # {}) =>
    last.models = LeafModelsOf(store, last.arg)

\* What find_models_and_types answers for T in the registry r.
Answered(r, T, same_order) ==
  LET out == ModelRegistry_find_models_and_types(r, T, same_order)
  IN [models |-> out.models, types |-> out.types]

\* C28 as stated: asking again with the types find_models_and_types returned
\* gives the same models and the same types; the returned types are the
\* input types and the ancestor class IRIs of the leaf models, all of them
\* class IRIs; and an answer of the type-set cache is the answer a fresh
\* computation gives on the registry as it is.
C28_RequeryAndCacheAgree ==
  /\ \A T \in DOMAIN store.type_set_cache :
       store.type_set_cache[T] = Answered(store, T, FALSE)
  /\ (last.op = "find" /\ last.arg # {}) =>
       /\ \A same_order \in BOOLEAN :
            Answered(store, last.types, same_order)
              = [models |-> last.models, types |-> last.types]
       /\ last.types
            = last.arg \cup UNION {m.ancestry_iris : m \in last.models}
       /\ None \notin last.types

\* C29: register(model, name) fails exactly when the class IRI of the model
\* or the short name is already bound, and a registration that fails leaves
\* the models by class IRI, the models by name, the descendant sets and the
\* type-set cache as they were.
C29_FailedRegisterChangesNothing ==
  [][\A model \in RegistryModels :
       Register(model) =>
         /\ (last'.status = "AlreadyAllocatedModelError")
              <=> \/ model.class_iri \in DOMAIN store.model_classes
                  \/ model.name \in DOMAIN store.model_names
         /\ (last'.status = "AlreadyAllocatedModelError") => store' = store
         /\ (last'.status = "ok") =>
              /\ store'.model_classes[model.class_iri] = model
              /\ store'.model_names[model.name] = model]_vars

\* A registration has failed while the type-set cache held answers.
C29_Witness ==
  /\ last.op = "register"
  /\ last.status = "AlreadyAllocatedModelError"
  /\ DOMAIN store.type_set_cache # {}

\* C30 as stated: once generate_attributes has been called, whatever the
\* number of attribute metadata declared before, every later
\* generate_attributes and add_attribute_metadata call raises
\* AlreadyGeneratedAttributeError and the generated attributes never change.
C30_FrozenOnceGenerated ==
  [][res[1].generated =>
       /\ last'.status = "OMAlreadyGeneratedAttributeError"
       /\ res'[1].om_attributes = res[1].om_attributes]_vars
\* C25: to_dict returns for every graph of resources, cyclic ones and
\* self-references included; no resource is inlined twice, and a resource
\* that is being serialised (the root, or one whose nested dict is not
\* finished) is mentioned by its IRI.
C25_InlinedAtMostOnce ==
  last.op = "to_dict" =>
    /\ last.returned
    /\ \A i \in DOMAIN last.mentions :
         /\ last.mentions[i].iri \in last.mentions[i].open
              => ~last.mentions[i].inlined
         /\ \A j \in DOMAIN last.mentions :
              (i < j /\ last.mentions[i].iri = last.mentions[j].iri
                 /\ last.mentions[i].inlined) => ~last.mentions[j].inlined

\* A resource reached along two paths is inlined on the first and is an IRI
\* on the second, and a resource mentions the root.
C25_Witness ==
  /\ last.op = "to_dict"
  /\ \E i, j \in DOMAIN last.mentions :
       /\ i < j
       /\ last.mentions[i].iri = last.mentions[j].iri
       /\ last.mentions[i].holder # last.mentions[j].holder
       /\ last.mentions[i].inlined
       /\ last.mentions[j].iri \notin last.mentions[j].open
  /\ \E k \in DOMAIN last.mentions :
       /\ last.mentions[k].iri = last.root
       /\ last.mentions[k].holder # last.root

UpdateKeys(r) ==
  (IF "LocalPerson" \in {m.class_iri : m \in r.models} THEN LDAttrs ELSE {})
    \cup {"@context", "id", "types"}

\* C24: update(full_dict) raises WrongResourceError when full_dict has no id
\* or an id that is not the IRI of the resource, and AttributeAccessError
\* when (the id being right) full_dict has a key that is neither an attribute
\* name of the resource nor @context, id or types; in both cases no attribute
\* value, former value or type of the resource has changed and nothing is
\* saved.
C24_WrongIdOrKeyChangesNothing ==
  \A full_dict \in FullDicts, allow_new_type \in BOOLEAN,
     allow_type_removal \in BOOLEAN :
    LET r == res[1]
        out == Resource_update(r, store, full_dict, allow_new_type,
                               allow_type_removal)
        wrong_id == "id" \notin full_dict.keys \/ full_dict.id # r.iri
        wrong_key == \E key \in full_dict.keys : key \notin UpdateKeys(r)
    IN /\ wrong_id => out.status = "OMWrongResourceError"
       /\ (~wrong_id /\ wrong_key) => out.status = "OMAttributeAccessError"
       /\ out.status \in {"OMWrongResourceError", "OMAttributeAccessError"} =>
            /\ wrong_id \/ wrong_key
            /\ out.r.val = r.val
            /\ out.r.former = r.former
            /\ out.r.types = r.types
            /\ out.r.models = r.models
            /\ ~out.saved

\* update has raised AttributeAccessError on a resource with a value that
\* the dict would have replaced had it been applied.
C24_Witness ==
  /\ last.op = "update"
  /\ last.status = "OMAttributeAccessError"
  /\ ~last.saved
  /\ res[1].val["short_bio_en"] = Single("hi")

\* update reaches the types field of full_dict for the resource r: the id
\* is that of r and every key is accepted.
TypesGiven(r, full_dict) ==
  /\ "id" \in full_dict.keys
  /\ full_dict.id = r.iri
  /\ full_dict.keys \subseteq UpdateKeys(r)
  /\ "types" \in full_dict.keys

\* The implicit ancestor types of r: the ancestor classes of its models that
\* are not the class of one of its models.
ImplicitTypes(r) ==
  UNION {m.ancestry_iris : m \in r.models} \ {m.class_iri : m \in r.models}

\* C22 as stated: update whose types field holds a type that is not among the
\* current types of the resource raises UnauthorizedTypeChangeError if and
\* only if allow_new_type is false; a types field that only repeats current
\* or ancestor types never raises; when update raises this error the types,
\* models and attribute values are unchanged and nothing is saved.
C22_NewTypeRaisesIffNotAllowed ==
  \A full_dict \in FullDicts, allow_new_type \in BOOLEAN,
     allow_type_removal \in BOOLEAN :
    LET r == res[1]
        out == Resource_update(r, store, full_dict, allow_new_type,
                               allow_type_removal)
        unauthorized == out.status = "OMUnauthorizedTypeChangeError"
    IN TypesGiven(r, full_dict) =>
         /\ (full_dict.types \ r.types # {}) =>
              (unauthorized <=> ~allow_new_type)
         /\ (full_dict.types \subseteq
               r.types \cup UNION {m.ancestry_iris : m \in r.models}) =>
              ~unauthorized
         /\ unauthorized => (out.r = r /\ ~out.saved)

\* C22, amended: with a type that is not among the current types, update
\* raises UnauthorizedTypeChangeError if and only if allow_new_type is false,
\* or allow_type_removal is false and the field omits a current type that is
\* not implicit; a field that only repeats current types raises it if and
\* only if allow_type_removal is false and it omits a current type that is
\* not implicit; when update raises this error the types, models and
\* attribute values are unchanged and nothing is saved.
C22_NewTypeRaisesUnlessAllowed ==
  \A full_dict \in FullDicts, allow_new_type \in BOOLEAN,
     allow_type_removal \in BOOLEAN :
    LET r == res[1]
        out == Resource_update(r, store, full_dict, allow_new_type,
                               allow_type_removal)
        unauthorized == out.status = "OMUnauthorizedTypeChangeError"
        removal_refused ==
          /\ ~allow_type_removal
          /\ (r.types \ full_dict.types) \ ImplicitTypes(r) # {}
    IN /\ TypesGiven(r, full_dict) =>
            /\ (full_dict.types \ r.types # {}) =>
                 (unauthorized <=> (~allow_new_type \/ removal_refused))
            /\ (full_dict.types \subseteq r.types) =>
                 (unauthorized <=> removal_refused)
       /\ unauthorized =>
            /\ out.r.types = r.types
            /\ out.r.models = r.models
            /\ out.r.val = r.val
            /\ out.r.former = r.former
            /\ ~out.saved

\* update has refused a new type: nothing was saved.
C22_Witness ==
  /\ last.op = "update"
  /\ last.status = "OMUnauthorizedTypeChangeError"
  /\ last.message = "Adding"
  /\ ~last.saved
  /\ "Agent" \notin res[1].types

\* C23 as stated: update whose types field omits a current type raises
\* UnauthorizedTypeChangeError if and only if allow_type_removal is false and
\* an omitted type is not an implicit ancestor type; a types field that
\* omits only implicit ancestor types is accepted and leaves the types and
\* the models of the resource unchanged.
C23_RemovalRaisesIffNotAllowed ==
  \A full_dict \in FullDicts, allow_new_type \in BOOLEAN,
     allow_type_removal \in BOOLEAN :
    LET r == res[1]
        out == Resource_update(r, store, full_dict, allow_new_type,
                               allow_type_removal)
        unauthorized == out.status = "OMUnauthorizedTypeChangeError"
        missing_types == r.types \ full_dict.types
    IN (TypesGiven(r, full_dict) /\ missing_types # {}) =>
         /\ unauthorized <=>
              (~allow_type_removal /\ missing_types \ ImplicitTypes(r) # {})
         /\ (missing_types \subseteq ImplicitTypes(r)) =>
              /\ ~unauthorized
              /\ out.r.types = r.types
              /\ out.r.models = r.models

\* C23, amended: update whose types field omits a current type raises
\* UnauthorizedTypeChangeError if and only if allow_type_removal is false and
\* an omitted type is not an implicit ancestor type, or allow_new_type is
\* false and the field holds a type that is not a current type; a types
\* field that omits only implicit ancestor types and holds no type that is
\* not a current one is accepted and leaves the types and the models of the
\* resource unchanged.
C23_RemovalRaisesUnlessAllowed ==
  \A full_dict \in FullDicts, allow_new_type \in BOOLEAN,
     allow_type_removal \in BOOLEAN :
    LET r == res[1]
        out == Resource_update(r, store, full_dict, allow_new_type,
                               allow_type_removal)
        unauthorized == out.status = "OMUnauthorizedTypeChangeError"
        missing_types == r.types \ full_dict.types
        additional_types == full_dict.types \ r.types
    IN (TypesGiven(r, full_dict) /\ missing_types # {}) =>
         /\ unauthorized <=>
              \/ ~allow_type_removal /\ missing_types \ ImplicitTypes(r) # {}
              \/ ~allow_new_type /\ additional_types # {}
         /\ (missing_types \subseteq ImplicitTypes(r)
               /\ additional_types = {}) =>
              /\ ~unauthorized
              /\ out.r.types = r.types
              /\ out.r.models = r.models

\* update has refused the removal of a type, and the resource has its types
\* and an implicit one among them.
C23_Witness ==
  /\ last.op = "update"
  /\ last.status = "OMUnauthorizedTypeChangeError"
  /\ last.message = "Removing"
  /\ ImplicitTypes(res[1]) # {}
  /\ ImplicitTypes(res[1]) \subseteq res[1].types

\* The IRI of a resource handed over as an object; an IRI is left as it is.
IriOf(x) ==
  IF x \in {"obj:usr2", "obj:genid1"}
  THEN CHOOSE iri \in {"usr2", "genid1"} : x = "obj:" \o iri
  ELSE x

\* The value with the IRI of every resource in the place of the resource.
IrisOf(value) ==
  [kind |-> value.kind,
   items |-> {IriOf(x) : x \in value.items},
   seq |-> [k \in 1..Len(value.seq) |-> IriOf(value.seq[k])]]

\* C21 as stated: after an assignment to an object attribute of resources,
\* of IRIs or of a container mixing both, the stored value holds only IRIs
\* and keeps the kind of the container (a set stays a set, a list keeps its
\* order); assigning resources and assigning the IRIs of the same resources
\* leave the attribute in the same stored state.
C21_ObjectsStoredAsIris ==
  [][\A a \in {"children", "gpg_key"}, value \in ObjectValues,
        accepts \in BOOLEAN :
       SetObjects(a, value, accepts) =>
         LET iris == ObjectLDAttribute_descriptor_set(
                       res[1], a, IF a = "children" THEN "@list" ELSE None,
                       IrisOf(value), accepts)
         IN /\ last'.raised = iris.raised
            /\ res'[1] = iris.r
            /\ ~last'.raised =>
                 /\ res'[1].val[a] = IrisOf(value)
                 /\ \A x \in members(res'[1].val[a]) :
                      x \in {"usr2", "genid1"}]_vars

\* C31 as stated: a property that receives an XSD range is a datatype
\* property; no property has both an XSD range and a range that is not XSD,
\* and its type, once set, never changes; with ranges declared, the addition
\* of an XSD range that is not among them, and the addition of any new range
\* to a property that has an XSD range, raise a schema error; a JSON-LD
\* datatype that differs from the declared range raises
\* AlreadyDeclaredDatatypeError and adds no attribute metadata.
C31_DatatypeDiffersAlreadyDeclared ==
  [][LET p == res[1]
         q == res'[1]
         xsd(r) == r \in {"xsd:string", "xsd:int"}
         schema_errors == {"OMPropertyDefTypeError",
                           "OMAlreadyDeclaredDatatypeError"}
     IN /\ \A r \in q.ranges : xsd(r) => (q.type = "datatype" /\ q.ranges = {r})
        /\ p.type # None => q.type = p.type
        /\ \A p_range \in PropertyRanges :
             AddRange(p_range) =>
               /\ (p.ranges # {} /\ p_range \notin p.ranges
                     /\ (xsd(p_range) \/ \E r \in p.ranges : xsd(r)))
                    => last'.status \in schema_errors
               /\ last'.status \in schema_errors => q.ranges = p.ranges
               /\ (last'.status = "ok" /\ xsd(p_range)) =>
                    (q.type = "datatype" /\ q.ranges = {p_range})
        /\ \A name \in Attrs, jsonld_type \in {"xsd:string"} :
             (AddAttributeMetadata(name, jsonld_type)
                /\ ~(p.generated /\ p.om_attributes # {})
                /\ p.ranges # {} /\ jsonld_type \notin p.ranges) =>
               /\ last'.status = "OMAlreadyDeclaredDatatypeError"
               /\ q.tmp_attr_mds = p.tmp_attr_mds]_vars

\* C31, amended: a property that receives an XSD range is a datatype
\* property; no property has both an XSD range and a range that is not XSD,
\* and its type, once set, never changes; with ranges declared, the addition
\* of an XSD range that is not among them, and the addition of any new range
\* to a property that has an XSD range, raise a schema error; a JSON-LD
\* datatype that differs from the declared range raises
\* AlreadyDeclaredDatatypeError, or PropertyDefTypeError when the property
\* is typed object, and adds no attribute metadata.
C31_RangesAndTypeAgree ==
  [][LET p == res[1]
         q == res'[1]
         xsd(r) == r \in {"xsd:string", "xsd:int"}
         schema_errors == {"OMPropertyDefTypeError",
                           "OMAlreadyDeclaredDatatypeError"}
     IN /\ \A r \in q.ranges : xsd(r) => (q.type = "datatype" /\ q.ranges = {r})
        /\ p.type # None => q.type = p.type
        /\ \A p_range \in PropertyRanges :
             AddRange(p_range) =>
               /\ (p.ranges # {} /\ p_range \notin p.ranges
                     /\ (xsd(p_range) \/ \E r \in p.ranges : xsd(r)))
                    => last'.status \in schema_errors
               /\ last'.status \in schema_errors => q.ranges = p.ranges
               /\ (last'.status = "ok" /\ xsd(p_range)) =>
                    (q.type = "datatype" /\ q.ranges = {p_range})
        /\ \A name \in Attrs, jsonld_type \in {"xsd:string"} :
             (AddAttributeMetadata(name, jsonld_type)
                /\ ~(p.generated /\ p.om_attributes # {})
                /\ p.ranges # {} /\ jsonld_type \notin p.ranges) =>
               /\ last'.status =
                    IF p.type = "object" THEN "OMPropertyDefTypeError"
                    ELSE "OMAlreadyDeclaredDatatypeError"
               /\ q.tmp_attr_mds = p.tmp_attr_mds]_vars

\* The addition of an XSD range has just been refused on a property that
\* has a range that is not XSD, after metadata was declared.
C31_Witness ==
  /\ last.op = "add_range"
  /\ last.status = "OMAlreadyDeclaredDatatypeError"
  /\ res[1].ranges = {"Person"}
  /\ res[1].type = "datatype"
  /\ res[1].tmp_attr_mds # <<>>

\* C32: with creators that allocate concurrently from the counter of one
\* class, no two allocations return the same IRI; the stored counter never
\* decreases and has advanced by exactly one for every IRI handed out; an
\* allocation returns an IRI or, after a bounded number of failed attempts,
\* fails with a store error, and no creator is left to retry beyond the
\* bound.
C32_UniqueIrisBoundedRetries ==
  [][/\ counter' >= counter
     /\ counter' = Len(updated_iris')
     /\ counter' - counter = Len(updated_iris') - Len(updated_iris)
     /\ \A i, j \in DOMAIN updated_iris' :
          i # j => updated_iris'[i] # updated_iris'[j]
     /\ \A c \in DOMAIN res :
          /\ res'[c].attempts <= MaxRetries
          /\ res'[c].pc \in {"read", "retry"} => res'[c].attempts < MaxRetries
          /\ CompareAndSet(c) =>
               /\ last'.status = "ok" <=> last'.iri # None
               /\ last'.status = "ok" =>
                    updated_iris' = Append(updated_iris, last'.iri)
               /\ last'.status = "DataStoreError" =>
                    /\ res'[c].attempts = MaxRetries
                    /\ res'[c].pc = "idle"
                    /\ updated_iris' = updated_iris]_vars

\* A creator has given up with a store error while the others were handed
\* IRIs.
C32_Witness ==
  /\ last.op = "compare_and_set"
  /\ last.status = "DataStoreError"
  /\ Len(updated_iris) >= 2

ResourcesOf(g, base_iri) == {s \in SubjectsOf(g) : hashless_iri(s) = base_iri}

\* The subjects of a document that belong to another document, and those
\* that are skolem IRIs.
OtherBaseSubjects(graph, base_iri) ==
  {k \in DOMAIN graph : /\ graph[k].iri # BlankSubject
                        /\ graph[k].iri \notin GenidIris
                        /\ hashless_iri(graph[k].iri) # base_iri}

SkolemSubjects(graph) == {k \in DOMAIN graph : graph[k].iri \in GenidIris}

C36_InvalidDocumentWritesNothing ==
  \A graph \in Documents :
    LET out == CRUDController_update_graph(World, "usr1", graph)
    IN /\ OtherBaseSubjects(graph, "usr1") = {}
       /\ SkolemSubjects(graph) = {}
       /\ \E k \in DOMAIN graph : graph[k].name = None
       => /\ out.status = "OMEditError"
          /\ out.w.store = store

\* An update of two resources was refused for a missing name, and a document
\* that gives the first resource a new name before a resource without a name
\* is refused in this state.
C36_Witness ==
  /\ last.op = "update"
  /\ last.status = "OMEditError"
  /\ last.subjects = {"usr1", "usr1#key"}
  /\ \E graph \in Documents :
       /\ Len(graph) > 1
       /\ graph[1].iri = "usr1"
       /\ graph[1].name = "b"
       /\ graph[2].iri = "usr1#key"
       /\ graph[2].name = None
       /\ Model_save(store, CRUDController_resource(World, graph[1]).sr)
            # store

ModelsFollowTypes(r, registry) ==
  /\ r.models = ModelRegistry_find_models_and_types(registry, r.types,
                                                    FALSE).models
  /\ \A m \in r.models : m.class_iri # None => m.class_iri \in r.types

\* C37: add_type and update keep the models of a resource in step with its
\* types: when the models of the resource are the models
\* find_models_and_types returns for its types, they are so after the call.
C37_ModelsFollowTypes ==
  [][ModelsFollowTypes(res[1], store) => ModelsFollowTypes(res'[1], store')]_vars

\* C39: once a model is unregistered its class has no part in the models
\* find_models_and_types returns: every type set gets the models it gets
\* without that class.
C39_UnregisteredClassHasNoInfluence ==
  [][\A model \in RegistryModels :
       Unregister(model) =>
         \A type_set \in SUBSET {"Person", "LocalPerson", "Agent"} :
           ModelRegistry_find_models_and_types(store', type_set, FALSE).models
             = ModelRegistry_find_models_and_types(
                 store', type_set \ {model.class_iri}, FALSE).models]_vars

C40_CachingLeavesTheResource ==
  [][/\ GetState =>
          /\ res' = res
          /\ \A name \in {"name", "bio"} :
               Resource_getattr(res'[1], name) = Resource_getattr(res[1], name)
     /\ SetState =>
          /\ last'.status = "ok"
          /\ \E state \in cache :
               /\ last'.r.iri = state._id
               /\ last'.r.types = state._types
               /\ \A name \in {"name", "bio"} :
                    Resource_getattr(last'.r, name) = state.values[name]
          /\ \A s \in PickleSlots : ~last'.r.former[s]]_vars

====
